---------------------------- MODULE Spec2Model ----------------------------
(***************************************************************************)
(* RISC-V (RV32IM) emulator: decoder, ALU, memory, register file, the      *)
(* single-cycle executor, the five-stage pipeline and the two-pass         *)
(* assembler.                                                              *)
(*                                                                         *)
(* A 32-bit Word is represented by its two's-complement signed reading     *)
(* (common.hpp: Word = uint32_t, SignedWord = int32_t, bit-identical), so  *)
(* every value lies in -2^31 .. 2^31-1.  All arithmetic is carried out on  *)
(* 16-bit halves and wraps modulo 2^32.                                    *)
(***************************************************************************)
EXTENDS Integers, Sequences, FiniteSets, TLC

\* ------------------------------------------------------------------------
\* 32-bit word arithmetic
\* ------------------------------------------------------------------------
H == 2^16

HiU(a) == (a \div H) % H
LoU(a) == a % H

\* word with the given upper and lower 16-bit parts (both reduced mod 2^16)
ToWord(hi, lo) == ((((hi % H) + 32768) % H) - 32768) * H + (lo % H)

Add(a, b) ==
    LET lo == (a % H) + (b % H)
    IN  ToWord((a \div H) + (b \div H) + (lo \div H), lo)

Sub(a, b) ==
    LET lo == (a % H) - (b % H)
    IN  ToWord((a \div H) - (b \div H) + (lo \div H), lo)

\* unsigned comparison a < b of two words
LtU(a, b) == IF (a < 0) = (b < 0) THEN a < b ELSE b < 0

RECURSIVE BitOp(_, _, _, _)
BitOp(op, x, y, n) ==
    IF n = 0 THEN 0
    ELSE LET bx == x % 2
             by == y % 2
             b  == CASE op = "AND" -> IF bx = 1 /\ by = 1 THEN 1 ELSE 0
                     [] op = "OR"  -> IF bx = 1 \/ by = 1 THEN 1 ELSE 0
                     [] OTHER      -> IF bx # by THEN 1 ELSE 0
         IN  b + 2 * BitOp(op, x \div 2, y \div 2, n - 1)

WordOp(op, a, b) ==
    ToWord(BitOp(op, HiU(a), HiU(b), 16), BitOp(op, LoU(a), LoU(b), 16))

\* a << s, a >> s (logical) for 0 <= s <= 31
ShiftLeft(a, s) ==
    IF s < 16
    THEN ToWord(HiU(a) * 2^s + (LoU(a) * 2^s) \div H, LoU(a) * 2^s)
    ELSE ToWord(LoU(a) * 2^(s - 16), 0)

ShiftRightLogical(a, s) ==
    IF s < 16
    THEN ToWord(HiU(a) \div 2^s, LoU(a) \div 2^s + (HiU(a) % 2^s) * 2^(16 - s))
    ELSE ToWord(0, HiU(a) \div 2^(s - 16))

\* common.hpp sign_extend
sign_extend(value, nbits) ==
    IF (value \div 2^(nbits - 1)) % 2 = 1
    THEN (value % 2^nbits) - 2^nbits
    ELSE value

\* ------------------------------------------------------------------------
\* Memory (memory.cpp): sparse byte map plus access counters
\* ------------------------------------------------------------------------
TEXT_BASE == 0
DATA_BASE == 268435456
STACK_TOP == 2147483632
NUM_REGISTERS == 32

EmptyMap == [a \in {} |-> 0]

Memory_reset == [map |-> EmptyMap, read_count |-> 0, write_count |-> 0]

\* each read returns the value and the memory with its read counter advanced
read_byte(m, addr) ==
    [val |-> IF addr \in DOMAIN m.map THEN m.map[addr] ELSE 0,
     mem |-> [m EXCEPT !.read_count = @ + 1]]

write_byte(m, addr, value) ==
    [m EXCEPT !.write_count = @ + 1,
              !.map = (addr :> (value % 256)) @@ m.map]

\* read_half counting one access for its two bytes
read_half_counted_once(m, addr) ==
    LET lo == read_byte(m, addr)
        hi == read_byte(m, Add(addr, 1))
    IN  [val |-> lo.val + hi.val * 256, mem |-> lo.mem]

read_half(m, addr) ==
    LET lo == read_byte(m, addr)
        hi == read_byte(lo.mem, Add(addr, 1))
    IN  [val |-> lo.val + hi.val * 256, mem |-> hi.mem]

write_half(m, addr, value) ==
    write_byte(write_byte(m, addr, value % 256),
               Add(addr, 1), (value \div 256) % 256)

read_word(m, addr) ==
    LET b0 == read_byte(m, addr)
        b1 == read_byte(b0.mem, Add(addr, 1))
        b2 == read_byte(b1.mem, Add(addr, 2))
        b3 == read_byte(b2.mem, Add(addr, 3))
    IN  [val |-> ToWord(b3.val * 256 + b2.val, b1.val * 256 + b0.val),
         mem |-> b3.mem]

\* write_word storing the most significant byte first
write_word_big_endian(m, addr, value) ==
    LET m0 == write_byte(m, addr, (value \div (H * 256)) % 256)
        m1 == write_byte(m0, Add(addr, 1), (value \div H) % 256)
        m2 == write_byte(m1, Add(addr, 2), (value \div 256) % 256)
    IN  write_byte(m2, Add(addr, 3), value % 256)

write_word(m, addr, value) ==
    LET m0 == write_byte(m, addr, value % 256)
        m1 == write_byte(m0, Add(addr, 1), (value \div 256) % 256)
        m2 == write_byte(m1, Add(addr, 2), (value \div H) % 256)
    IN  write_byte(m2, Add(addr, 3), (value \div (H * 256)) % 256)

read_byte_signed(m, addr) ==
    LET r == read_byte(m, addr)
    IN  [val |-> sign_extend(r.val, 8), mem |-> r.mem]

read_half_signed(m, addr) ==
    LET r == read_half(m, addr)
    IN  [val |-> sign_extend(r.val, 16), mem |-> r.mem]

RECURSIVE write_block(_, _, _)
write_block(m, addr, words) ==
    IF words = << >> THEN m
    ELSE write_block(write_word(m, addr, Head(words)), Add(addr, 4), Tail(words))

RECURSIVE write_bytes(_, _, _)
write_bytes(m, addr, bytes) ==
    IF bytes = << >> THEN m
    ELSE write_bytes(write_byte(m, addr, Head(bytes)), Add(addr, 1), Tail(bytes))

\* ------------------------------------------------------------------------
\* Register file (register_file.cpp)
\* ------------------------------------------------------------------------
RegisterFile_reset == [r \in 0 .. NUM_REGISTERS - 1 |-> 0]

\* whether read(reg) and write(reg, ...) return instead of throwing
\* std::out_of_range
RegisterFile_in_range(reg) == reg >= 0 /\ reg < NUM_REGISTERS

RegisterFile_read(rf, reg) == IF reg = 0 THEN 0 ELSE rf[reg]

\* RegisterFile::write without the check that drops writes to x0
RegisterFile_write_unguarded(rf, reg, value) == [rf EXCEPT ![reg] = value]

RegisterFile_write(rf, reg, value) ==
    IF reg # 0 THEN [rf EXCEPT ![reg] = value] ELSE rf


\* ------------------------------------------------------------------------
\* Decoder (decoder.cpp)
\* ------------------------------------------------------------------------
OP_LUI    == 55
OP_AUIPC  == 23
OP_JAL    == 111
OP_JALR   == 103
OP_BRANCH == 99
OP_LOAD   == 3
OP_STORE  == 35
OP_IMM    == 19
OP_REG    == 51
OP_SYSTEM == 115

\* bits taking one bit more than hi .. lo
bits_one_more(val, hi, lo) ==
    IF lo = 31 THEN (IF val < 0 THEN 1 ELSE 0)
    ELSE (val \div 2^lo) % 2^(hi - lo + 2)

\* (val >> lo) & ((1 << (hi - lo + 1)) - 1); bit 31 is the sign of the
\* signed reading
bits(val, hi, lo) ==
    IF lo = 31 THEN (IF val < 0 THEN 1 ELSE 0)
    ELSE (val \div 2^lo) % 2^(hi - lo + 1)

get_rd(raw)     == bits(raw, 11, 7)
get_rs1(raw)    == bits(raw, 19, 15)
get_rs2(raw)    == bits(raw, 24, 20)
get_funct3(raw) == bits(raw, 14, 12)
get_funct7(raw) == bits(raw, 31, 25)

imm_i(raw) == sign_extend(bits(raw, 31, 20), 12)

imm_s(raw) == sign_extend(bits(raw, 31, 25) * 32 + bits(raw, 11, 7), 12)

imm_b(raw) ==
    sign_extend(bits(raw, 31, 31) * 4096 + bits(raw, 7, 7) * 2048
                + bits(raw, 30, 25) * 32 + bits(raw, 11, 8) * 2, 13)

imm_u(raw) == raw - (raw % 4096)

imm_j(raw) ==
    sign_extend(bits(raw, 31, 31) * 1048576 + bits(raw, 19, 12) * 4096
                + bits(raw, 20, 20) * 2048 + bits(raw, 30, 21) * 2, 21)

\* common.hpp struct Instruction with its default member values
Instruction ==
    [raw |-> 19, type |-> "ADDI", format |-> "I",
     rd |-> 0, rs1 |-> 0, rs2 |-> 0, imm |-> 0,
     reg_write |-> FALSE, mem_read |-> FALSE, mem_write |-> FALSE,
     mem_to_reg |-> FALSE, branch |-> FALSE, jump |-> FALSE,
     alu_src |-> FALSE, alu_op |-> "NONE", pc |-> 0]

is_nop(ins) == ins.raw = 19 \/ ins.raw = 0

BranchType(funct3) ==
    CASE funct3 = 0 -> "BEQ" [] funct3 = 1 -> "BNE" [] funct3 = 4 -> "BLT"
      [] funct3 = 5 -> "BGE" [] funct3 = 6 -> "BLTU" [] funct3 = 7 -> "BGEU"
      [] OTHER -> "UNKNOWN"

LoadType(funct3) ==
    CASE funct3 = 0 -> "LB" [] funct3 = 1 -> "LH" [] funct3 = 2 -> "LW"
      [] funct3 = 4 -> "LBU" [] funct3 = 5 -> "LHU"
      [] OTHER -> "UNKNOWN"

StoreType(funct3) ==
    CASE funct3 = 0 -> "SB" [] funct3 = 1 -> "SH" [] funct3 = 2 -> "SW"
      [] OTHER -> "UNKNOWN"

\* OP_IMM: <<type, alu_op>> per funct3 (SRLI/SRAI by funct7 bit 5)
ImmArith(funct3, funct7) ==
    CASE funct3 = 0 -> <<"ADDI", "ADD">>
      [] funct3 = 2 -> <<"SLTI", "SLT">>
      [] funct3 = 3 -> <<"SLTIU", "SLTU">>
      [] funct3 = 4 -> <<"XORI", "XOR">>
      [] funct3 = 6 -> <<"ORI", "OR">>
      [] funct3 = 7 -> <<"ANDI", "AND">>
      [] funct3 = 1 -> <<"SLLI", "SLL">>
      [] OTHER -> IF (funct7 \div 32) % 2 = 1 THEN <<"SRAI", "SRA">>
                                              ELSE <<"SRLI", "SRL">>

\* OP_REG: type (the ALU operation carries the same name)
RegArith(funct3, funct7) ==
    IF funct7 = 1
    THEN CASE funct3 = 0 -> "MUL" [] funct3 = 1 -> "MULH"
           [] funct3 = 2 -> "MULHSU" [] funct3 = 3 -> "MULHU"
           [] funct3 = 4 -> "DIV" [] funct3 = 5 -> "DIVU"
           [] funct3 = 6 -> "REM" [] OTHER -> "REMU"
    ELSE CASE funct3 = 0 -> IF (funct7 \div 32) % 2 = 1 THEN "SUB" ELSE "ADD"
           [] funct3 = 1 -> "SLL" [] funct3 = 2 -> "SLT"
           [] funct3 = 3 -> "SLTU" [] funct3 = 4 -> "XOR"
           [] funct3 = 5 -> IF (funct7 \div 32) % 2 = 1 THEN "SRA" ELSE "SRL"
           [] funct3 = 6 -> "OR" [] OTHER -> "AND"

decode(raw, pc) ==
    LET opcode == bits(raw, 6, 0)
        funct3 == get_funct3(raw)
        funct7 == get_funct7(raw)
        ins == [Instruction EXCEPT !.raw = raw, !.pc = pc, !.rd = get_rd(raw),
                                   !.rs1 = get_rs1(raw), !.rs2 = get_rs2(raw)]
    IN  CASE opcode = OP_LUI ->
               [ins EXCEPT !.type = "LUI", !.format = "U", !.imm = imm_u(raw),
                           !.reg_write = TRUE, !.alu_src = TRUE,
                           !.alu_op = "PASS_B"]
          [] opcode = OP_AUIPC ->
               [ins EXCEPT !.type = "AUIPC", !.format = "U", !.imm = imm_u(raw),
                           !.reg_write = TRUE, !.alu_src = TRUE,
                           !.alu_op = "ADD"]
          [] opcode = OP_JAL ->
               [ins EXCEPT !.type = "JAL", !.format = "J", !.imm = imm_j(raw),
                           !.reg_write = TRUE, !.jump = TRUE]
          [] opcode = OP_JALR ->
               [ins EXCEPT !.type = "JALR", !.format = "I", !.imm = imm_i(raw),
                           !.reg_write = TRUE, !.jump = TRUE,
                           !.alu_src = TRUE, !.alu_op = "ADD"]
          [] opcode = OP_BRANCH ->
               [ins EXCEPT !.type = BranchType(funct3), !.format = "B",
                           !.imm = imm_b(raw), !.branch = TRUE]
          [] opcode = OP_LOAD ->
               [ins EXCEPT !.type = LoadType(funct3), !.format = "I",
                           !.imm = imm_i(raw), !.reg_write = TRUE,
                           !.mem_read = TRUE, !.mem_to_reg = TRUE,
                           !.alu_src = TRUE, !.alu_op = "ADD"]
          [] opcode = OP_STORE ->
               [ins EXCEPT !.type = StoreType(funct3), !.format = "S",
                           !.imm = imm_s(raw), !.mem_write = TRUE,
                           !.alu_src = TRUE, !.alu_op = "ADD"]
          [] opcode = OP_IMM ->
               [ins EXCEPT !.type = ImmArith(funct3, funct7)[1],
                           !.alu_op = ImmArith(funct3, funct7)[2],
                           !.format = "I",
                           !.imm = IF funct3 = 1 \/ funct3 = 5
                                   THEN get_rs2(raw) ELSE imm_i(raw),
                           !.reg_write = TRUE, !.alu_src = TRUE]
          [] opcode = OP_REG ->
               [ins EXCEPT !.type = RegArith(funct3, funct7),
                           !.alu_op = RegArith(funct3, funct7),
                           !.format = "R", !.reg_write = TRUE, !.imm = 0]
          [] opcode = OP_SYSTEM ->
               [ins EXCEPT !.type = IF imm_i(raw) = 0 THEN "ECALL"
                                    ELSE IF imm_i(raw) = 1 THEN "EBREAK"
                                    ELSE "UNKNOWN",
                           !.format = "I", !.imm = imm_i(raw)]
          [] OTHER ->
               [ins EXCEPT !.type = "UNKNOWN", !.format = "UNKNOWN"]

\* ------------------------------------------------------------------------
\* ALU (alu.cpp)
\* ------------------------------------------------------------------------
INT_MIN == -2147483647 - 1

\* product of two 16-bit values as <<upper 16 bits, lower 16 bits>>
Mul16(x, y) ==
    LET p0 == x * (y % 256)
        p1 == x * (y \div 256)
        t  == p0 + 256 * (p1 % 256)
    IN  <<(p1 \div 256) + (t \div H), t % H>>

\* 64-bit product of the unsigned readings of a and b, as four 16-bit limbs
\* (least significant first)
Mul64(a, b) ==
    LET p00 == Mul16(LoU(a), LoU(b))
        p01 == Mul16(LoU(a), HiU(b))
        p10 == Mul16(HiU(a), LoU(b))
        p11 == Mul16(HiU(a), HiU(b))
        t1  == p00[1] + p01[2] + p10[2]
        t2  == p01[1] + p10[1] + p11[2] + (t1 \div H)
        t3  == p11[1] + (t2 \div H)
    IN  <<p00[2], t1 % H, t2 % H, t3 % H>>

MulLow(a, b)   == LET p == Mul64(a, b) IN ToWord(p[2], p[1])
MulHighU(a, b) == LET p == Mul64(a, b) IN ToWord(p[4], p[3])

\* upper word of the 64-bit product with a (and b) widened as signed
MulHighSU(a, b) == IF a < 0 THEN Sub(MulHighU(a, b), b) ELSE MulHighU(a, b)
MulHighS(a, b) ==
    IF b < 0 THEN Sub(MulHighSU(a, b), a) ELSE MulHighSU(a, b)

\* the quotient rounded down instead of toward zero
TruncQuot_flooring(sa, d) == sa \div d

\* C++ sa / d and sa % d (truncating) for a positive divisor d
TruncQuot(sa, d) ==
    IF sa < 0 /\ sa % d # 0 THEN (sa \div d) + 1 ELSE sa \div d
TruncRem(sa, d) ==
    IF sa < 0 /\ sa % d # 0 THEN (sa % d) - d ELSE sa % d

SignedDiv(sa, sb) ==
    IF sb > 0 THEN TruncQuot(sa, sb)
    ELSE IF sb = INT_MIN THEN (IF sa = INT_MIN THEN 1 ELSE 0)
    ELSE 0 - TruncQuot(sa, 0 - sb)

SignedRem(sa, sb) ==
    IF sb > 0 THEN TruncRem(sa, sb)
    ELSE IF sb = INT_MIN THEN (IF sa = INT_MIN THEN 0 ELSE sa)
    ELSE TruncRem(sa, 0 - sb)

\* unsigned a / b and a % b as <<quotient, remainder>>, b # 0
UnsignedDivRem(a, b) ==
    IF b < 0 THEN (IF LtU(a, b) THEN <<0, a>> ELSE <<1, Sub(a, b)>>)
    ELSE IF a >= 0 THEN <<a \div b, a % b>>
    ELSE LET half == ShiftRightLogical(a, 1)
             a0   == a % 2
             q    == half \div b
             r    == half % b
             more == r + a0 >= b - r
         IN  IF more THEN <<Add(Add(q, q), 1), r - (b - r - a0)>>
                     ELSE <<Add(q, q), 2 * r + a0>>

ALU_execute(op, a, b) ==
    CASE op = "ADD"    -> Add(a, b)
      [] op = "SUB"    -> Sub(a, b)
      [] op = "SLL"    -> ShiftLeft(a, b % 32)
      [] op = "SRL"    -> ShiftRightLogical(a, b % 32)
      [] op = "SRA"    -> IF b % 32 = 31 THEN (IF a < 0 THEN -1 ELSE 0)
                          ELSE a \div 2^(b % 32)
      [] op = "SLT"    -> IF a < b THEN 1 ELSE 0
      [] op = "SLTU"   -> IF LtU(a, b) THEN 1 ELSE 0
      [] op = "XOR"    -> WordOp("XOR", a, b)
      [] op = "OR"     -> WordOp("OR", a, b)
      [] op = "AND"    -> WordOp("AND", a, b)
      [] op = "MUL"    -> MulLow(a, b)
      [] op = "MULH"   -> MulHighS(a, b)
      [] op = "MULHSU" -> MulHighSU(a, b)
      [] op = "MULHU"  -> MulHighU(a, b)
      [] op = "DIV"    -> IF b = 0 THEN -1
                          ELSE IF a = INT_MIN /\ b = -1 THEN a
                          ELSE SignedDiv(a, b)
      [] op = "DIVU"   -> IF b = 0 THEN -1 ELSE UnsignedDivRem(a, b)[1]
      [] op = "REM"    -> IF b = 0 THEN a
                          ELSE IF a = INT_MIN /\ b = -1 THEN 0
                          ELSE SignedRem(a, b)
      [] op = "REMU"   -> IF b = 0 THEN a ELSE UnsignedDivRem(a, b)[2]
      [] op = "PASS_B" -> b
      [] OTHER         -> 0

branch_taken(type, rs1_val, rs2_val) ==
    CASE type = "BEQ"  -> rs1_val = rs2_val
      [] type = "BNE"  -> rs1_val # rs2_val
      [] type = "BLT"  -> rs1_val < rs2_val
      [] type = "BGE"  -> rs1_val >= rs2_val
      [] type = "BLTU" -> LtU(rs1_val, rs2_val)
      [] type = "BGEU" -> ~LtU(rs1_val, rs2_val)
      [] OTHER         -> FALSE

\* ------------------------------------------------------------------------
\* Single-cycle executor (cpu.cpp).  The operators act on a record
\* [mem, regs, c] of the shared memory, the shared register file and the
\* CPU's own fields.
\* ------------------------------------------------------------------------
CPU_reset ==
    [pc |-> TEXT_BASE, cycles |-> 0, instructions |-> 0, halted |-> FALSE,
     last_ins |-> Instruction, breakpoints |-> {}]

has_breakpoint(breakpoints, addr) == addr \in breakpoints

CPU_execute(ins, pc, rs1_val, rs2_val) ==
    LET alu_b == IF ins.alu_src THEN ins.imm ELSE rs2_val
        alu_a == IF ins.type = "AUIPC" THEN pc ELSE rs1_val
    IN  ALU_execute(ins.alu_op, alu_a, alu_b)

\* returns the value and the memory after the access
memory_access(m, ins, alu_result, rs2_val) ==
    LET addr == alu_result
        store ==
            IF ins.mem_write
            THEN CASE ins.type = "SB" -> write_byte(m, addr, rs2_val % 256)
                   [] ins.type = "SH" -> write_half(m, addr, rs2_val % H)
                   [] ins.type = "SW" -> write_word(m, addr, rs2_val)
                   [] OTHER -> m
            ELSE m
    IN  IF ins.mem_read /\ ins.type \in {"LB", "LH", "LW", "LBU", "LHU"}
        THEN CASE ins.type = "LB"  -> read_byte_signed(m, addr)
               [] ins.type = "LH"  -> read_half_signed(m, addr)
               [] ins.type = "LW"  -> read_word(m, addr)
               [] ins.type = "LBU" -> read_byte(m, addr)
               [] OTHER            -> read_half(m, addr)
        ELSE [val |-> alu_result, mem |-> store]

writeback(rf, ins, result) ==
    IF ins.reg_write /\ ins.rd # 0
    THEN RegisterFile_write(rf, ins.rd, result) ELSE rf

\* (x & ~1)
ClearLSB(x) == x - (x % 2)

\* the next PC with bit 0 of the JALR target kept
step_next_pc_keeping_bit0(ins, pc, rs1_val, rs2_val) ==
    IF ins.jump
    THEN IF ins.type = "JAL" THEN Add(pc, ins.imm)
         ELSE IF ins.type = "JALR" THEN Add(rs1_val, ins.imm)
         ELSE Add(pc, 4)
    ELSE IF ins.branch /\ branch_taken(ins.type, rs1_val, rs2_val)
         THEN Add(pc, ins.imm)
         ELSE Add(pc, 4)

\* CPU::step, next PC of an instruction other than ECALL
step_next_pc(ins, pc, rs1_val, rs2_val) ==
    IF ins.jump
    THEN IF ins.type = "JAL" THEN Add(pc, ins.imm)
         ELSE IF ins.type = "JALR" THEN ClearLSB(Add(rs1_val, ins.imm))
         ELSE Add(pc, 4)
    ELSE IF ins.branch /\ branch_taken(ins.type, rs1_val, rs2_val)
         THEN Add(pc, ins.imm)
         ELSE Add(pc, 4)

\* CPU::step, the ALU result, replaced by the return address for JAL/JALR
step_alu_result(ins, pc, rs1_val, rs2_val) ==
    IF ins.jump /\ ins.type \in {"JAL", "JALR"}
    THEN Add(pc, 4)
    ELSE CPU_execute(ins, pc, rs1_val, rs2_val)

\* CPU::step from the writeback on; mem_result is what memory_access returned
step_writeback(s, ins, next_pc, alu_result, mem_result) ==
    [s |-> [mem  |-> mem_result.mem,
            regs |-> writeback(s.regs, ins,
                               IF ins.mem_to_reg THEN mem_result.val
                                                 ELSE alu_result),
            c    |-> [s.c EXCEPT !.last_ins = ins, !.pc = next_pc,
                                 !.cycles = @ + 1, !.instructions = @ + 1]],
     ret |-> ~has_breakpoint(s.c.breakpoints, next_pc)]

\* CPU::step from the register reads on; m is the memory after the fetch
step_execute(s, m, ins, rs1_val, rs2_val, alu_result) ==
    step_writeback(s, ins, step_next_pc(ins, s.c.pc, rs1_val, rs2_val),
                   alu_result, memory_access(m, ins, alu_result, rs2_val))

\* CPU::step after the decode
step_decoded(s, m, ins) ==
    IF ins.type = "ECALL"
    THEN [s |-> [s EXCEPT !.mem = m, !.c.last_ins = ins,
                          !.c.halted = TRUE, !.c.cycles = @ + 1,
                          !.c.instructions = @ + 1],
          ret |-> FALSE]
    ELSE step_execute(s, m, ins,
                      RegisterFile_read(s.regs, ins.rs1),
                      RegisterFile_read(s.regs, ins.rs2),
                      step_alu_result(ins, s.c.pc,
                                      RegisterFile_read(s.regs, ins.rs1),
                                      RegisterFile_read(s.regs, ins.rs2)))

\* CPU::step after the fetch; raw is what read_word returned
step_fetched(s, raw) == step_decoded(s, raw.mem, decode(raw.val, s.c.pc))

\* CPU::step: the state after the call and the value it returns
step(s) ==
    IF s.c.halted THEN [s |-> s, ret |-> FALSE]
    ELSE step_fetched(s, read_word(s.mem, s.c.pc))

\* ------------------------------------------------------------------------
\* Pipeline latches (common.hpp), each in the state flush() leaves it in
\* ------------------------------------------------------------------------
IF_ID_flush ==
    [instruction |-> 19, pc |-> 0, next_pc |-> 4, valid |-> FALSE]

ID_EX_flush ==
    [ins |-> Instruction, rs1_val |-> 0, rs2_val |-> 0, pc |-> 0,
     next_pc |-> 4, valid |-> FALSE]

EX_MEM_flush ==
    [ins |-> Instruction, alu_result |-> 0, rs2_val |-> 0,
     branch_target |-> 0, branch_taken |-> FALSE, valid |-> FALSE]

MEM_WB_flush ==
    [ins |-> Instruction, alu_result |-> 0, mem_data |-> 0, valid |-> FALSE]

\* ------------------------------------------------------------------------
\* Pipeline (pipeline.cpp).  The operators act on a record [mem, regs, p] of
\* the shared memory, the shared register file and the pipeline's fields.
\* ------------------------------------------------------------------------
Pipeline_reset ==
    [pc |-> TEXT_BASE, next_pc |-> TEXT_BASE + 4,
     hazard_detection |-> TRUE, forwarding |-> TRUE,
     halted |-> FALSE, stalled |-> FALSE,
     cycles |-> 0, instructions |-> 0, stalls |-> 0, flushes |-> 0,
     forwards |-> 0,
     if_id |-> IF_ID_flush, id_ex |-> ID_EX_flush,
     ex_mem |-> EX_MEM_flush, mem_wb |-> MEM_WB_flush,
     breakpoints |-> {}]

\* the forwarding source chosen whether or not forwarding is enabled
ForwardFor_always(p, reg) ==
    IF reg = 0 THEN "NONE"
    ELSE IF p.ex_mem.valid /\ p.ex_mem.ins.reg_write /\ p.ex_mem.ins.rd = reg
         THEN "EX_MEM"
    ELSE IF p.mem_wb.valid /\ p.mem_wb.ins.reg_write /\ p.mem_wb.ins.rd = reg
         THEN "MEM_WB"
    ELSE "NONE"

\* the forwarding source with MEM/WB looked at before EX/MEM
ForwardFor_mem_wb_first(p, reg) ==
    IF ~p.forwarding THEN "NONE"
    ELSE IF reg = 0 THEN "NONE"
    ELSE IF p.mem_wb.valid /\ p.mem_wb.ins.reg_write /\ p.mem_wb.ins.rd = reg
         THEN "MEM_WB"
    ELSE IF p.ex_mem.valid /\ p.ex_mem.ins.reg_write /\ p.ex_mem.ins.rd = reg
         THEN "EX_MEM"
    ELSE "NONE"

\* forwarding source for register reg of the instruction in ID/EX
ForwardFor(p, reg) ==
    IF ~p.forwarding THEN "NONE"
    ELSE IF reg = 0 THEN "NONE"
    ELSE IF p.ex_mem.valid /\ p.ex_mem.ins.reg_write /\ p.ex_mem.ins.rd = reg
         THEN "EX_MEM"
    ELSE IF p.mem_wb.valid /\ p.mem_wb.ins.reg_write /\ p.mem_wb.ins.rd = reg
         THEN "MEM_WB"
    ELSE "NONE"

\* HazardUnit::get_forward_rs1 / get_forward_rs2 for source register reg
HazardUnit_get_forward(reg, ex_mem, mem_wb) ==
    IF reg = 0 THEN "NONE"
    ELSE IF ex_mem.valid /\ ex_mem.ins.reg_write /\ ex_mem.ins.rd # 0
            /\ ex_mem.ins.rd = reg
         THEN "EX_MEM"
    ELSE IF mem_wb.valid /\ mem_wb.ins.reg_write /\ mem_wb.ins.rd # 0
            /\ mem_wb.ins.rd = reg
         THEN "MEM_WB"
    ELSE "NONE"

\* the selected source and the pipeline with its forwards counter advanced
get_forward_a(p) ==
    LET f == ForwardFor(p, p.id_ex.ins.rs1)
    IN  [fwd |-> f,
         p   |-> IF f = "NONE" THEN p ELSE [p EXCEPT !.forwards = @ + 1]]

get_forward_b(p) ==
    LET f == ForwardFor(p, p.id_ex.ins.rs2)
    IN  [fwd |-> f,
         p   |-> IF f = "NONE" THEN p ELSE [p EXCEPT !.forwards = @ + 1]]

\* the latched value whatever the selected source
get_forwarded_value_latched(p, fwd, reg_val) == reg_val

get_forwarded_value(p, fwd, reg_val) ==
    CASE fwd = "EX_MEM" -> p.ex_mem.alu_result
      [] fwd = "MEM_WB" -> IF p.mem_wb.ins.mem_to_reg THEN p.mem_wb.mem_data
                           ELSE p.mem_wb.alu_result
      [] OTHER -> reg_val

\* the load-use check that compares the load's rd with rs1 only
detect_load_use_hazard_rs1_only(p) ==
    IF ~p.hazard_detection THEN FALSE
    ELSE IF p.id_ex.valid /\ p.id_ex.ins.mem_read
    THEN LET next_ins == decode(p.if_id.instruction, p.if_id.pc)
         IN  p.id_ex.ins.rd # 0 /\ p.id_ex.ins.rd = next_ins.rs1
    ELSE FALSE

\* the load-use check made whether or not hazard detection is enabled
detect_load_use_hazard_always(p) ==
    IF p.id_ex.valid /\ p.id_ex.ins.mem_read
    THEN LET next_ins == decode(p.if_id.instruction, p.if_id.pc)
         IN  p.id_ex.ins.rd # 0
             /\ (p.id_ex.ins.rd = next_ins.rs1 \/ p.id_ex.ins.rd = next_ins.rs2)
    ELSE FALSE

detect_load_use_hazard(p) ==
    IF ~p.hazard_detection THEN FALSE
    ELSE IF p.id_ex.valid /\ p.id_ex.ins.mem_read
    THEN LET next_ins == decode(p.if_id.instruction, p.if_id.pc)
         IN  p.id_ex.ins.rd # 0
             /\ (p.id_ex.ins.rd = next_ins.rs1 \/ p.id_ex.ins.rd = next_ins.rs2)
    ELSE FALSE

\* stage_if after the fetch; r is what read_word returned
stage_if_fetched(s, r) ==
    [s EXCEPT !.mem = r.mem,
              !.p.if_id = [instruction |-> r.val, pc |-> s.p.pc,
                           next_pc |-> Add(s.p.pc, 4), valid |-> TRUE],
              !.p.pc = s.p.next_pc,
              !.p.next_pc = Add(s.p.next_pc, 4)]

stage_if(s) ==
    IF s.p.stalled THEN s
    ELSE stage_if_fetched(s, read_word(s.mem, s.p.pc))

\* stage_id after the decode
stage_id_decoded(s, ins) ==
    [s EXCEPT !.p.id_ex =
        [ins |-> ins,
         rs1_val |-> RegisterFile_read(s.regs, ins.rs1),
         rs2_val |-> RegisterFile_read(s.regs, ins.rs2),
         pc |-> s.p.if_id.pc, next_pc |-> s.p.if_id.next_pc,
         valid |-> TRUE]]

stage_id(s) ==
    IF ~s.p.if_id.valid THEN [s EXCEPT !.p.id_ex = ID_EX_flush]
    ELSE stage_id_decoded(s, decode(s.p.if_id.instruction, s.p.if_id.pc))

\* the operand values EX selects, with the forwards counter advanced
ExOperands(p) ==
    LET fa == get_forward_a(p)
        fb == get_forward_b(fa.p)
    IN  [fwd_a |-> fa.fwd, fwd_b |-> fb.fwd, p |-> fb.p,
         rs1_val |-> get_forwarded_value(p, fa.fwd, p.id_ex.rs1_val),
         rs2_val |-> get_forwarded_value(p, fb.fwd, p.id_ex.rs2_val)]

\* stage_ex: whether the instruction redirects the fetch
ex_branch_taken(ins, rs1_val, rs2_val) ==
    IF ins.jump THEN ins.type \in {"JAL", "JALR"}
    ELSE ins.branch /\ branch_taken(ins.type, rs1_val, rs2_val)

\* stage_ex: the branch target (0 when there is none)
ex_branch_target(ins, pc, rs1_val, taken) ==
    IF ins.jump
    THEN IF ins.type = "JAL" THEN Add(pc, ins.imm)
         ELSE IF ins.type = "JALR" THEN ClearLSB(Add(rs1_val, ins.imm))
         ELSE 0
    ELSE IF taken THEN Add(pc, ins.imm) ELSE 0

\* stage_ex: the ALU result, not replaced for JAL/JALR
ex_alu_result_without_link(ins, pc, rs1_val, rs2_val) ==
    ALU_execute(ins.alu_op,
                IF ins.type = "AUIPC" THEN pc ELSE rs1_val,
                IF ins.alu_src THEN ins.imm ELSE rs2_val)

\* stage_ex: the ALU result, replaced by the return address for JAL/JALR
ex_alu_result(ins, pc, rs1_val, rs2_val) ==
    IF ins.jump /\ ins.type \in {"JAL", "JALR"}
    THEN Add(pc, 4)
    ELSE ALU_execute(ins.alu_op,
                     IF ins.type = "AUIPC" THEN pc ELSE rs1_val,
                     IF ins.alu_src THEN ins.imm ELSE rs2_val)

\* stage_ex that redirects next_pc only when the branch is taken
stage_ex_resolve_next_pc_only(p, ins, alu_result, rs2_val, target, taken) ==
    IF taken
    THEN [p EXCEPT !.ex_mem = [ins |-> ins, alu_result |-> alu_result,
                               rs2_val |-> rs2_val, branch_target |-> target,
                               branch_taken |-> taken, valid |-> TRUE],
                   !.next_pc = target,
                   !.if_id = IF_ID_flush, !.id_ex = ID_EX_flush,
                   !.flushes = @ + 2]
    ELSE [p EXCEPT !.ex_mem = [ins |-> ins, alu_result |-> alu_result,
                               rs2_val |-> rs2_val, branch_target |-> target,
                               branch_taken |-> taken, valid |-> TRUE]]

\* stage_ex that leaves IF/ID as it is when the branch is taken
stage_ex_resolve_keeping_if_id(p, ins, alu_result, rs2_val, target, taken) ==
    IF taken
    THEN [p EXCEPT !.ex_mem = [ins |-> ins, alu_result |-> alu_result,
                               rs2_val |-> rs2_val, branch_target |-> target,
                               branch_taken |-> taken, valid |-> TRUE],
                   !.next_pc = target, !.pc = target,
                   !.id_ex = ID_EX_flush,
                   !.flushes = @ + 2]
    ELSE [p EXCEPT !.ex_mem = [ins |-> ins, alu_result |-> alu_result,
                               rs2_val |-> rs2_val, branch_target |-> target,
                               branch_taken |-> taken, valid |-> TRUE]]

\* stage_ex: EX/MEM update and control-hazard handling; p is the pipeline
\* with the forwards counter already advanced
stage_ex_resolve(p, ins, alu_result, rs2_val, target, taken) ==
    IF taken
    THEN [p EXCEPT !.ex_mem = [ins |-> ins, alu_result |-> alu_result,
                               rs2_val |-> rs2_val, branch_target |-> target,
                               branch_taken |-> taken, valid |-> TRUE],
                   !.next_pc = target, !.pc = target,
                   !.if_id = IF_ID_flush, !.id_ex = ID_EX_flush,
                   !.flushes = @ + 2]
    ELSE [p EXCEPT !.ex_mem = [ins |-> ins, alu_result |-> alu_result,
                               rs2_val |-> rs2_val, branch_target |-> target,
                               branch_taken |-> taken, valid |-> TRUE]]

\* stage_ex once the branch decision is known
stage_ex_branch(p, ins, pc, rs1_val, rs2_val, taken) ==
    stage_ex_resolve(p, ins, ex_alu_result(ins, pc, rs1_val, rs2_val), rs2_val,
                     ex_branch_target(ins, pc, rs1_val, taken), taken)

\* stage_ex once the operands are selected
stage_ex_operands(idex, ops) ==
    stage_ex_branch(ops.p, idex.ins, idex.pc, ops.rs1_val, ops.rs2_val,
                    ex_branch_taken(idex.ins, ops.rs1_val, ops.rs2_val))

stage_ex(s) ==
    IF ~s.p.id_ex.valid THEN [s EXCEPT !.p.ex_mem = EX_MEM_flush]
    ELSE [s EXCEPT !.p = stage_ex_operands(s.p.id_ex, ExOperands(s.p))]

\* stage_mem: the load, as the value read and the memory after the read
mem_load(m, ins, addr) ==
    IF ins.mem_read
    THEN CASE ins.type = "LB"  -> read_byte_signed(m, addr)
           [] ins.type = "LH"  -> read_half_signed(m, addr)
           [] ins.type = "LW"  -> read_word(m, addr)
           [] ins.type = "LBU" -> read_byte(m, addr)
           [] ins.type = "LHU" -> read_half(m, addr)
           [] OTHER -> [val |-> 0, mem |-> m]
    ELSE [val |-> 0, mem |-> m]

\* stage_mem: the store
mem_store(m, ins, addr, val) ==
    IF ins.mem_write
    THEN CASE ins.type = "SB" -> write_byte(m, addr, val % 256)
           [] ins.type = "SH" -> write_half(m, addr, val % H)
           [] ins.type = "SW" -> write_word(m, addr, val)
           [] OTHER -> m
    ELSE m

\* stage_mem after the load; rd is what mem_load returned
stage_mem_loaded(s, ins, rd) ==
    [s EXCEPT !.mem = mem_store(rd.mem, ins, s.p.ex_mem.alu_result,
                                s.p.ex_mem.rs2_val),
              !.p.mem_wb = [ins |-> ins,
                            alu_result |-> s.p.ex_mem.alu_result,
                            mem_data |-> rd.val, valid |-> TRUE],
              !.p.instructions =
                  IF ins.type # "UNKNOWN" /\ ~is_nop(ins) THEN @ + 1 ELSE @]

\* stage_mem that leaves MEM/WB as it is when EX/MEM is not valid
stage_mem_keeping_mem_wb(s) ==
    IF ~s.p.ex_mem.valid THEN s
    ELSE stage_mem_loaded(s, s.p.ex_mem.ins,
                          mem_load(s.mem, s.p.ex_mem.ins,
                                   s.p.ex_mem.alu_result))

stage_mem(s) ==
    IF ~s.p.ex_mem.valid THEN [s EXCEPT !.p.mem_wb = MEM_WB_flush]
    ELSE stage_mem_loaded(s, s.p.ex_mem.ins,
                          mem_load(s.mem, s.p.ex_mem.ins,
                                   s.p.ex_mem.alu_result))

\* stage_wb: the register write
wb_write(rf, mw) ==
    IF mw.ins.reg_write /\ mw.ins.rd # 0
    THEN RegisterFile_write(rf, mw.ins.rd,
                            IF mw.ins.mem_to_reg THEN mw.mem_data
                                                 ELSE mw.alu_result)
    ELSE rf

\* stage_wb that halts on ECALL and writes no register
stage_wb_without_write(s) ==
    IF ~s.p.mem_wb.valid THEN s
    ELSE [s EXCEPT !.p.halted = IF s.p.mem_wb.ins.type = "ECALL"
                                THEN TRUE ELSE @]

stage_wb(s) ==
    IF ~s.p.mem_wb.valid THEN s
    ELSE [s EXCEPT !.regs = wb_write(s.regs, s.p.mem_wb),
                   !.p.halted = IF s.p.mem_wb.ins.type = "ECALL"
                                THEN TRUE ELSE @]

\* the load-use check without the stall count
cycle_hazard_without_count(s, hazard) ==
    [s EXCEPT !.p.stalled = hazard]

\* Pipeline::cycle: the load-use check and the stall count
cycle_hazard(s, hazard) ==
    [s EXCEPT !.p.stalled = hazard,
              !.p.stalls = IF hazard THEN @ + 1 ELSE @]

\* Pipeline::cycle: WB, MEM and EX, which run in stalled and in normal cycles
cycle_back(s) ==
    stage_ex(stage_mem(stage_wb(cycle_hazard(s, detect_load_use_hazard(s.p)))))

\* a stalled cycle that leaves ID/EX as it is
cycle_front_without_bubble(s) ==
    IF s.p.stalled THEN s
    ELSE stage_if(stage_id(s))

\* Pipeline::cycle: the bubble of a stalled cycle, or ID and IF
cycle_front(s) ==
    IF s.p.stalled THEN [s EXCEPT !.p.id_ex = ID_EX_flush]
    ELSE stage_if(stage_id(s))

\* the returned value with the cycle count left alone in a stalled cycle
cycle_return_uncounted_stall(s) ==
    [s   |-> IF s.p.stalled THEN s ELSE [s EXCEPT !.p.cycles = @ + 1],
     ret |-> IF has_breakpoint(s.p.breakpoints, s.p.pc) THEN FALSE
             ELSE ~s.p.halted]

\* Pipeline::cycle: the cycle count and the returned value
cycle_return(s) ==
    [s   |-> [s EXCEPT !.p.cycles = @ + 1],
     ret |-> IF has_breakpoint(s.p.breakpoints, s.p.pc) THEN FALSE
             ELSE ~s.p.halted]

\* Pipeline::cycle without the early return of a halted pipeline
cycle_ignoring_halted(s) == cycle_return(cycle_front(cycle_back(s)))

\* Pipeline::cycle: the state after the call and the value it returns
cycle(s) ==
    IF s.p.halted THEN [s |-> s, ret |-> FALSE]
    ELSE cycle_return(cycle_front(cycle_back(s)))

\* ------------------------------------------------------------------------
\* Assembler (assembler.cpp).  A source line is a record
\*   [label, kind, mnem, ops]
\* label: the text before ':' ("" when the line has none); kind: "blank"
\* (nothing after the label), "dir" (a directive) or "ins"; mnem: the lowered
\* first word; ops: the comma-separated operands.  An operand is a record
\* with its text and what its characters are: k = "x" (the letter x and the
\* decimal number v), "name" (any other word), "num" (the number v),
\* "mem" (offset(base), with has_off, off and the base operand).
\* The operators act on the record of the assembler's members.
\* ------------------------------------------------------------------------
ABI ==
    [zero |-> 0, ra |-> 1, sp |-> 2, gp |-> 3, tp |-> 4,
     t0 |-> 5, t1 |-> 6, t2 |-> 7, s0 |-> 8, fp |-> 8, s1 |-> 9,
     a0 |-> 10, a1 |-> 11, a2 |-> 12, a3 |-> 13, a4 |-> 14, a5 |-> 15,
     a6 |-> 16, a7 |-> 17, s2 |-> 18, s3 |-> 19, s4 |-> 20, s5 |-> 21,
     s6 |-> 22, s7 |-> 23, s8 |-> 24, s9 |-> 25, s10 |-> 26, s11 |-> 27,
     t3 |-> 28, t4 |-> 29, t5 |-> 30, t6 |-> 31]

\* the register number, -1 when the operand names no register
parse_reg(tok) ==
    IF tok.k = "x" THEN (IF tok.v >= 0 /\ tok.v < 32 THEN tok.v ELSE -1)
    ELSE IF tok.k = "name" /\ tok.text \in DOMAIN ABI THEN ABI[tok.text]
    ELSE -1

\* whether the operand parses as a number, and val afterwards (old when not)
parse_imm(tok, old) ==
    IF tok.k = "num" THEN [ok |-> TRUE, val |-> tok.v]
    ELSE IF tok.k = "mem" /\ tok.has_off /\ tok.off_ok
         THEN [ok |-> TRUE, val |-> tok.off]
    ELSE [ok |-> FALSE, val |-> old]

\* offset(base): whether it parses, and offset and reg afterwards; old_off
\* and old_reg are what the caller's variables held before
parse_mem(tok, old_off, old_reg) ==
    IF tok.k # "mem" THEN [ok |-> FALSE, off |-> old_off, reg |-> old_reg]
    ELSE IF tok.has_off /\ ~tok.off_ok
         THEN [ok |-> FALSE, off |-> 0, reg |-> old_reg]
    ELSE [ok  |-> parse_reg(tok.base) >= 0,
          off |-> IF tok.has_off THEN tok.off ELSE 0,
          reg |-> parse_reg(tok.base)]

\* bitwise or of 32-bit values
Or(x, y) == WordOp("OR", x, y)

enc_r(op, rd, f3, rs1, rs2, f7) ==
    Or(Or(Or(Or(Or(ShiftLeft(f7, 25), ShiftLeft(rs2, 20)), ShiftLeft(rs1, 15)),
             ShiftLeft(f3, 12)), ShiftLeft(rd, 7)), op)

enc_i(op, rd, f3, rs1, imm) ==
    Or(Or(Or(Or(ShiftLeft(imm % 4096, 20), ShiftLeft(rs1, 15)),
             ShiftLeft(f3, 12)), ShiftLeft(rd, 7)), op)

enc_s(op, f3, rs1, rs2, imm) ==
    Or(Or(Or(Or(Or(ShiftLeft((imm \div 32) % 128, 25), ShiftLeft(rs2, 20)),
                ShiftLeft(rs1, 15)), ShiftLeft(f3, 12)),
          ShiftLeft(imm % 32, 7)), op)

\* enc_b losing bit 11 of the offset
enc_b_without_bit11(op, f3, rs1, rs2, imm) ==
    Or(Or(Or(Or(Or(Or(ShiftLeft((imm \div 4096) % 2, 31),
                      ShiftLeft((imm \div 32) % 64, 25)),
                   ShiftLeft(rs2, 20)), ShiftLeft(rs1, 15)),
             ShiftLeft(f3, 12)), ShiftLeft((imm \div 2) % 16, 8)), op)

enc_b(op, f3, rs1, rs2, imm) ==
    Or(Or(Or(Or(Or(Or(Or(ShiftLeft((imm \div 4096) % 2, 31),
                         ShiftLeft((imm \div 32) % 64, 25)),
                      ShiftLeft(rs2, 20)), ShiftLeft(rs1, 15)),
                ShiftLeft(f3, 12)), ShiftLeft((imm \div 2) % 16, 8)),
          ShiftLeft((imm \div 2048) % 2, 7)), op)

enc_u(op, rd, imm) == Or(Or(imm - (imm % 4096), ShiftLeft(rd, 7)), op)

enc_j(op, rd, imm) ==
    Or(Or(Or(Or(Or(ShiftLeft((imm \div 1048576) % 2, 31),
                   ShiftLeft((imm \div 2) % 1024, 21)),
                ShiftLeft((imm \div 2048) % 2, 20)),
             ShiftLeft((imm \div 4096) % 256, 12)), ShiftLeft(rd, 7)), op)

\* the members after assemble() has cleared them and before pass 1
Assembler_start ==
    [labels |-> EmptyMap, errors |-> << >>, text_out |-> << >>,
     data_out |-> << >>, source_map |-> EmptyMap,
     text_addr |-> TEXT_BASE, data_addr |-> DATA_BASE,
     in_data |-> FALSE, line_num |-> 0]

emit(a, w, src) ==
    [a EXCEPT !.source_map = (a.text_addr :> src) @@ @,
              !.text_out = Append(@, w),
              !.text_addr = Add(@, 4)]

\* "Line <line_num>: <msg>"
error(a, msg) ==
    [a EXCEPT !.errors =
                 Append(@, "Line " \o ToString(a.line_num) \o ": " \o msg)]

\* if (!first_pass) emit(w, src); else text_addr += 4;
emit_or_advance(a, first_pass, w, src) ==
    IF first_pass THEN [a EXCEPT !.text_addr = Add(@, 4)] ELSE emit(a, w, src)

\* the four bytes a .word directive appends to the data segment
WordBytes(val) ==
    <<val % 256, (val \div 256) % 256, (val \div H) % 256,
      (val \div (H * 256)) % 256>>

\* the bytes pushed for one value of .word, .half and .byte
DirBytes(dir, val) ==
    IF dir = ".word" THEN WordBytes(val)
    ELSE IF dir = ".half" THEN <<val % 256, (val \div 256) % 256>>
    ELSE <<val % 256>>

\* .word / .half / .byte: the values from operand i on
RECURSIVE data_values(_, _, _, _, _)
data_values(a, dir, parts, i, first_pass) ==
    IF i > Len(parts) THEN a
    ELSE IF ~parse_imm(parts[i], 0).ok
         THEN data_values(a, dir, parts, i + 1, first_pass)
    ELSE data_values(
            [a EXCEPT !.data_out =
                         IF ~first_pass /\ a.in_data
                         THEN @ \o DirBytes(dir, parts[i].v) ELSE @,
                      !.data_addr =
                         IF a.in_data
                         THEN Add(@, Len(DirBytes(dir, parts[i].v))) ELSE @],
            dir, parts, i + 1, first_pass)

\* .align in the data section: pad to a multiple of align
RECURSIVE align_data(_, _, _)
align_data(a, align, first_pass) ==
    IF a.data_addr % align = 0 THEN a
    ELSE align_data([a EXCEPT !.data_out = IF first_pass THEN @
                                            ELSE Append(@, 0),
                              !.data_addr = Add(@, 1)],
                    align, first_pass)

\* .align in the text section: pad with NOPs
RECURSIVE align_text(_, _, _)
align_text(a, align, first_pass) ==
    IF a.text_addr % align = 0 THEN a
    ELSE align_text(emit_or_advance(a, first_pass, 19, ""), align, first_pass)

handle_directive(a, dir, parts, first_pass) ==
    IF dir = ".text" THEN [a EXCEPT !.in_data = FALSE]
    ELSE IF dir = ".data" THEN [a EXCEPT !.in_data = TRUE]
    ELSE IF dir \in {".globl", ".global"} THEN a
    ELSE IF dir \in {".word", ".half", ".byte"}
         THEN data_values(a, dir, parts, 1, first_pass)
    ELSE IF dir \in {".asciz", ".string"}
         THEN IF Len(parts) >= 1 /\ parts[1].k = "str"
              THEN [a EXCEPT !.data_out =
                                IF ~first_pass /\ a.in_data
                                THEN @ \o parts[1].bytes \o <<0>> ELSE @,
                             !.data_addr =
                                IF a.in_data
                                THEN Add(@, Len(parts[1].bytes) + 1) ELSE @]
              ELSE a
    ELSE IF dir = ".space"
         THEN IF Len(parts) >= 1 /\ parse_imm(parts[1], 0).ok
              THEN [a EXCEPT !.data_out =
                                IF ~first_pass /\ a.in_data /\ parts[1].v > 0
                                THEN @ \o [i \in 1 .. parts[1].v |-> 0] ELSE @,
                             !.data_addr =
                                IF a.in_data THEN Add(@, parts[1].v) ELSE @]
              ELSE a
    ELSE IF dir = ".align"
         THEN IF Len(parts) >= 1 /\ parse_imm(parts[1], 0).ok
              THEN IF a.in_data
                   THEN align_data(a, 2 ^ parts[1].v, first_pass)
                   ELSE align_text(a, 2 ^ parts[1].v, first_pass)
              ELSE a
    ELSE a

\* the upper part taken without rounding
li_upper_truncating(imm) == (imm \div 4096) % 1048576

\* the words of `li rd, imm`
li_upper(imm) == (Add(imm, 2048) \div 4096) % 1048576

li_lower(imm) == Sub(imm, ShiftLeft(li_upper(imm), 12))

\* the offset of a branch or jump target in pass 2: the operand as a number
\* when the instruction tries that first, else the label's address minus
\* text_addr; ok is FALSE when neither is there
resolve(a, tok, try_imm) ==
    IF try_imm /\ parse_imm(tok, 0).ok THEN [ok |-> TRUE, off |-> tok.v]
    ELSE IF tok.text \in DOMAIN a.labels
         THEN [ok |-> TRUE, off |-> Sub(a.labels[tok.text], a.text_addr)]
    ELSE [ok |-> FALSE, off |-> 0]

\* pass 1 advances by 4; pass 2 emits w when the target resolved, else
\* reports the label (report) or does nothing
emit_resolved(a, first_pass, tok, try_imm, w, report, src) ==
    IF first_pass THEN [a EXCEPT !.text_addr = Add(@, 4)]
    ELSE IF resolve(a, tok, try_imm).ok THEN emit(a, w, src)
    ELSE IF report THEN error(a, "Unknown label: " \o tok.text)
    ELSE a

\* mv, not, neg, seqz, snez, sltz, sgtz
pseudo_rr(mnem, rd, rs) ==
    IF mnem = "mv" THEN enc_i(19, rd, 0, rs, 0)
    ELSE IF mnem = "not" THEN enc_i(19, rd, 4, rs, -1)
    ELSE IF mnem = "neg" THEN enc_r(51, rd, 0, 0, rs, 32)
    ELSE IF mnem = "seqz" THEN enc_i(19, rd, 3, rs, 1)
    ELSE IF mnem = "snez" THEN enc_r(51, rd, 3, 0, rs, 0)
    ELSE IF mnem = "sltz" THEN enc_r(51, rd, 2, rs, 0, 0)
    ELSE enc_r(51, rd, 2, 0, rs, 0)

\* the branch each pseudo-branch stands for: funct3 and whether its
\* register operands go to rs2 (x0 or rs to rs1) instead of rs1
pseudo_branches ==
    [beqz |-> <<0, FALSE>>, bnez |-> <<1, FALSE>>, blez |-> <<5, TRUE>>,
     bgez |-> <<5, FALSE>>, bltz |-> <<4, FALSE>>, bgtz |-> <<4, TRUE>>]

pseudo_branches3 == [bgt |-> 4, ble |-> 5, bgtu |-> 6, bleu |-> 7]

li(a, ops, src, first_pass) ==
    IF ~parse_imm(ops[2], 0).ok THEN error(a, "Invalid immediate")
    ELSE IF ops[2].v >= -2048 /\ ops[2].v < 2048
         THEN emit_or_advance(a, first_pass,
                              enc_i(19, parse_reg(ops[1]), 0, 0, ops[2].v), src)
    ELSE IF li_lower(ops[2].v) = 0
         THEN emit_or_advance(a, first_pass,
                 enc_u(55, parse_reg(ops[1]),
                       ShiftLeft(li_upper(ops[2].v), 12)), src)
    ELSE emit_or_advance(
            emit_or_advance(a, first_pass,
                 enc_u(55, parse_reg(ops[1]),
                       ShiftLeft(li_upper(ops[2].v), 12)), src),
            first_pass,
            enc_i(19, parse_reg(ops[1]), 0, parse_reg(ops[1]),
                  li_lower(ops[2].v)), src)

\* la taking the offset from the address of its second word, the addi
la_anchored_at_addi(a, ops, src, first_pass) ==
    IF first_pass THEN [a EXCEPT !.text_addr = Add(@, 8)]
    ELSE IF ops[2].text \notin DOMAIN a.labels
         THEN error(a, "Unknown label: " \o ops[2].text)
    ELSE emit(emit(a, enc_u(23, parse_reg(ops[1]),
                            ShiftLeft(li_upper(
                                Sub(resolve(a, ops[2], FALSE).off, 4)), 12)),
                   src),
              enc_i(19, parse_reg(ops[1]), 0, parse_reg(ops[1]),
                    li_lower(Sub(resolve(a, ops[2], FALSE).off, 4))), src)

la(a, ops, src, first_pass) ==
    IF first_pass THEN [a EXCEPT !.text_addr = Add(@, 8)]
    ELSE IF ops[2].text \notin DOMAIN a.labels
         THEN error(a, "Unknown label: " \o ops[2].text)
    ELSE emit(emit(a, enc_u(23, parse_reg(ops[1]),
                            ShiftLeft(li_upper(resolve(a, ops[2], FALSE).off),
                                      12)), src),
              enc_i(19, parse_reg(ops[1]), 0, parse_reg(ops[1]),
                    li_lower(resolve(a, ops[2], FALSE).off)), src)

\* handled is what handle_pseudo returns, a the members afterwards
handle_pseudo(a, mnem, ops, src, first_pass) ==
    IF mnem = "nop"
    THEN [handled |-> TRUE, a |-> emit_or_advance(a, first_pass, 19, src)]
    ELSE IF mnem \in {"mv", "not", "neg", "seqz", "snez", "sltz", "sgtz"}
            /\ Len(ops) = 2
    THEN [handled |-> TRUE,
          a |-> emit_or_advance(a, first_pass,
                   pseudo_rr(mnem, parse_reg(ops[1]), parse_reg(ops[2])), src)]
    ELSE IF mnem = "li" /\ Len(ops) = 2
    THEN [handled |-> TRUE, a |-> li(a, ops, src, first_pass)]
    ELSE IF mnem = "la" /\ Len(ops) = 2
    THEN [handled |-> TRUE, a |-> la(a, ops, src, first_pass)]
    ELSE IF mnem = "j" /\ Len(ops) = 1
    THEN [handled |-> TRUE,
          a |-> emit_resolved(a, first_pass, ops[1], TRUE,
                   enc_j(111, 0, resolve(a, ops[1], TRUE).off), TRUE, src)]
    ELSE IF mnem = "jr" /\ Len(ops) = 1
    THEN [handled |-> TRUE,
          a |-> emit_or_advance(a, first_pass,
                   enc_i(103, 0, 0, parse_reg(ops[1]), 0), src)]
    ELSE IF mnem = "ret"
    THEN [handled |-> TRUE,
          a |-> emit_or_advance(a, first_pass, enc_i(103, 0, 0, 1, 0), src)]
    ELSE IF mnem \in {"call", "tail"} /\ Len(ops) = 1
    THEN [handled |-> TRUE,
          a |-> emit_resolved(a, first_pass, ops[1], FALSE,
                   enc_j(111, IF mnem = "call" THEN 1 ELSE 0,
                         resolve(a, ops[1], FALSE).off), TRUE, src)]
    ELSE IF mnem \in DOMAIN pseudo_branches /\ Len(ops) = 2
    THEN [handled |-> TRUE,
          a |-> emit_resolved(a, first_pass, ops[2], mnem = "beqz",
                   enc_b(99, pseudo_branches[mnem][1],
                         IF pseudo_branches[mnem][2] THEN 0
                         ELSE parse_reg(ops[1]),
                         IF pseudo_branches[mnem][2] THEN parse_reg(ops[1])
                         ELSE 0,
                         resolve(a, ops[2], mnem = "beqz").off),
                   FALSE, src)]
    ELSE IF mnem \in DOMAIN pseudo_branches3 /\ Len(ops) = 3
    THEN [handled |-> TRUE,
          a |-> emit_resolved(a, first_pass, ops[3], FALSE,
                   enc_b(99, pseudo_branches3[mnem], parse_reg(ops[2]),
                         parse_reg(ops[1]), resolve(a, ops[3], FALSE).off),
                   FALSE, src)]
    ELSE [handled |-> FALSE, a |-> a]

r_ops ==
    [add |-> <<0, 0>>, sub |-> <<0, 32>>, sll |-> <<1, 0>>, slt |-> <<2, 0>>,
     sltu |-> <<3, 0>>, xor |-> <<4, 0>>, srl |-> <<5, 0>>, sra |-> <<5, 32>>,
     or |-> <<6, 0>>, and |-> <<7, 0>>, mul |-> <<0, 1>>, mulh |-> <<1, 1>>,
     mulhsu |-> <<2, 1>>, mulhu |-> <<3, 1>>, div |-> <<4, 1>>,
     divu |-> <<5, 1>>, rem |-> <<6, 1>>, remu |-> <<7, 1>>]

i_arith ==
    [addi |-> 0, slti |-> 2, sltiu |-> 3, xori |-> 4, ori |-> 6, andi |-> 7]

loads == [lb |-> 0, lh |-> 1, lw |-> 2, lbu |-> 4, lhu |-> 5]

stores == [sb |-> 0, sh |-> 1, sw |-> 2]

branches ==
    [beq |-> 0, bne |-> 1, blt |-> 4, bge |-> 5, bltu |-> 6, bgeu |-> 7]

\* slli, srli, srai
shift_word(mnem, rd, rs1, shamt) ==
    Or(Or(Or(Or(Or(ShiftLeft(IF mnem = "srai" THEN 32 ELSE 0, 25),
                   ShiftLeft(shamt % 32, 20)), ShiftLeft(rs1, 15)),
             ShiftLeft(IF mnem = "slli" THEN 1 ELSE 5, 12)),
          ShiftLeft(rd, 7)), 19)

\* jalr with one, two or three operands (rd = 1, rs1 = 0, off = 0 to begin)
jalr_word(ops) ==
    IF Len(ops) = 1 THEN enc_i(103, 1, 0, parse_reg(ops[1]), 0)
    ELSE IF Len(ops) = 2
         THEN enc_i(103, parse_reg(ops[1]), 0, parse_mem(ops[2], 0, 0).reg,
                    parse_mem(ops[2], 0, 0).off)
    ELSE IF Len(ops) = 3
         THEN enc_i(103, parse_reg(ops[1]), 0, parse_reg(ops[2]),
                    parse_imm(ops[3], 0).val)
    ELSE enc_i(103, 1, 0, 0, 0)

\* g is what an uninitialised local holds when a parse that was to set it
\* failed and its result went unchecked
handle_instruction(a, mnem, ops, src, first_pass, g) ==
    IF mnem \in DOMAIN r_ops /\ Len(ops) = 3
    THEN emit_or_advance(a, first_pass,
            enc_r(51, parse_reg(ops[1]), r_ops[mnem][1], parse_reg(ops[2]),
                  parse_reg(ops[3]), r_ops[mnem][2]), src)
    ELSE IF mnem \in DOMAIN i_arith /\ Len(ops) = 3
    THEN emit_or_advance(a, first_pass,
            enc_i(19, parse_reg(ops[1]), i_arith[mnem], parse_reg(ops[2]),
                  parse_imm(ops[3], g).val), src)
    ELSE IF mnem \in {"slli", "srli", "srai"} /\ Len(ops) = 3
    THEN emit_or_advance(a, first_pass,
            shift_word(mnem, parse_reg(ops[1]), parse_reg(ops[2]),
                       parse_imm(ops[3], g).val), src)
    ELSE IF mnem \in DOMAIN loads /\ Len(ops) = 2
    THEN emit_or_advance(a, first_pass,
            enc_i(3, parse_reg(ops[1]), loads[mnem],
                  parse_mem(ops[2], g, g).reg, parse_mem(ops[2], g, g).off),
            src)
    ELSE IF mnem \in DOMAIN stores /\ Len(ops) = 2
    THEN emit_or_advance(a, first_pass,
            enc_s(35, stores[mnem], parse_mem(ops[2], g, g).reg,
                  parse_reg(ops[1]), parse_mem(ops[2], g, g).off), src)
    ELSE IF mnem \in DOMAIN branches /\ Len(ops) = 3
    THEN emit_resolved(a, first_pass, ops[3], TRUE,
            enc_b(99, branches[mnem], parse_reg(ops[1]), parse_reg(ops[2]),
                  resolve(a, ops[3], TRUE).off), TRUE, src)
    ELSE IF mnem = "jal"
    THEN IF Len(ops) \notin {1, 2} THEN error(a, "Invalid jal format")
         ELSE emit_resolved(a, first_pass, ops[Len(ops)], TRUE,
                 enc_j(111, IF Len(ops) = 1 THEN 1 ELSE parse_reg(ops[1]),
                       resolve(a, ops[Len(ops)], TRUE).off), TRUE, src)
    ELSE IF mnem = "jalr"
    THEN emit_or_advance(a, first_pass, jalr_word(ops), src)
    ELSE IF mnem \in {"lui", "auipc"} /\ Len(ops) = 2
    THEN emit_or_advance(a, first_pass,
            enc_u(IF mnem = "lui" THEN 55 ELSE 23, parse_reg(ops[1]),
                  ShiftLeft(parse_imm(ops[2], g).val, 12)), src)
    ELSE IF mnem = "ecall" THEN emit_or_advance(a, first_pass, 115, src)
    ELSE IF mnem = "ebreak" THEN emit_or_advance(a, first_pass, 1048691, src)
    ELSE error(a, "Unknown instruction: " \o mnem)

\* if (!handle_pseudo(...)) handle_instruction(...)
assemble_ins(a, line, first_pass, g, pseudo) ==
    IF pseudo.handled THEN pseudo.a
    ELSE handle_instruction(a, line.mnem, line.ops, line.text, first_pass, g)

\* process_line after the label
process_rest(a, line, first_pass, g) ==
    IF line.kind = "blank" THEN a
    ELSE IF line.kind = "dir"
         THEN handle_directive(a, line.mnem, line.ops, first_pass)
    ELSE IF a.in_data THEN a
    ELSE assemble_ins(a, line, first_pass, g,
            handle_pseudo(a, line.mnem, line.ops, line.text, first_pass))

process_line(a, line, first_pass, g) ==
    process_rest(
        IF line.label # "" /\ first_pass
        THEN [a EXCEPT !.labels =
                 (line.label :> (IF a.in_data THEN a.data_addr
                                 ELSE a.text_addr)) @@ @]
        ELSE a,
        line, first_pass, g)

\* the members as each pass of assemble() finds them
pass_start(a) ==
    [a EXCEPT !.text_addr = TEXT_BASE, !.data_addr = DATA_BASE,
              !.in_data = FALSE, !.line_num = 0]

\* what assemble() returns
Result(a) ==
    [success |-> a.errors = << >>, text |-> a.text_out, data |-> a.data_out,
     text_addr |-> TEXT_BASE, data_addr |-> DATA_BASE,
     symbols |-> a.labels, source_map |-> a.source_map,
     errors |-> a.errors]

\* ------------------------------------------------------------------------
\* Emulator (emulator.cpp): one memory and one register file shared by the
\* two executors; a program is loaded, the PC may be set, and the program is
\* run in one mode.
\* ------------------------------------------------------------------------
VARIABLES
    prog,   \* asm_result.text: the instruction words loaded at TEXT_BASE
    data,   \* asm_result.data: the bytes loaded at DATA_BASE
    mode,   \* Emulator::mode, "single" or "pipeline"
    mem,    \* Emulator::mem
    regs,   \* Emulator::regs
    cpu,    \* Emulator::cpu
    pipe,   \* Emulator::pipeline
    ret,    \* what the last step() or cycle() returned ("none" before any)
    hist,   \* history of the run: what each pipeline stage did to which
            \* fetched instruction (never read by the executors)
    source,     \* the lines given to Assembler::assemble
    assembler,  \* Emulator::assembler: the members of the Assembler
    asm_pc,     \* where assemble() stands: "idle", "pass1", "pass2", "done"
    asm_result, \* Emulator::asm_result
    asmlog,     \* history of the assembly: per line, what each pass did
                \* (never read by the assembler)
    program_loaded  \* Emulator::program_loaded

asm_vars ==
    <<source, assembler, asm_pc, asm_result, asmlog, program_loaded>>

run_vars == <<prog, data, mode, mem, regs, cpu, pipe, ret, hist>>

vars == <<prog, data, mode, mem, regs, cpu, pipe, ret, hist,
          source, assembler, asm_pc, asm_result, asmlog, program_loaded>>

ProgLen   == 3
MaxCycles == 9
MaxSteps  == 4

\* addi x1,x0,5 / nop / add x3,x3,x1 / lw x1,0(x0) / sw x1,256(x0) /
\* beq x0,x0,+8 / jal x1,+8 / jalr x0,x1,8 / ecall
InsPool ==
    {5243027, 19, 1147315, 8323, 269492259, 1123, 8388847, 8421479, 115}

Programs == [1 .. ProgLen -> InsPool]

\* The word of a `.word` directive in the data section: 0x00703103, the load
\* opcode with the undefined funct3 = 3 (rd = x2, rs1 = x0, imm = 7)
DataWords == {7352579}

\* Emulator::load_source after a successful assembly
Loaded(text, bytes) ==
    [mem  |-> write_bytes(write_block(Memory_reset, TEXT_BASE, text),
                          DATA_BASE, bytes),
     regs |-> RegisterFile_write(RegisterFile_reset, 2, STACK_TOP)]

\* nothing fetched yet; tags number the fetches from 1, tag 0 is "none"
Hist0 ==
    [entry |-> TEXT_BASE, nfetch |-> 0,
     t_if |-> 0, t_id |-> 0, t_ex |-> 0, t_mem |-> 0,
     squashed |-> {}, wrote |-> {},
     exlog |-> EmptyMap, commit |-> EmptyMap,
     br |-> [tag |-> 0]]

\* nothing assembled yet
AsmLog0 == [advance |-> << >>, in_text |-> << >>, emitted |-> << >>,
            at |-> << >>]

\* a program whose assembly succeeded is loaded; the source it was
\* assembled from is not kept
Init ==
    /\ prog \in Programs
    /\ \E w \in DataWords : data = WordBytes(w)
    /\ mode \in {"single", "pipeline"}
    /\ mem = Loaded(prog, data).mem
    /\ regs = Loaded(prog, data).regs
    /\ cpu = CPU_reset
    /\ \E hd \in BOOLEAN, fw \in BOOLEAN :
          /\ (mode = "single") => (hd /\ fw)
          /\ pipe = [Pipeline_reset EXCEPT !.hazard_detection = hd,
                                           !.forwarding = fw]
    /\ ret = "none"
    /\ hist = Hist0
    /\ source = << >>
    /\ assembler = [Assembler_start EXCEPT !.text_out = prog,
                                           !.data_out = data]
    /\ asm_pc = "done"
    /\ asm_result = Result(assembler)
    /\ asmlog = AsmLog0
    /\ program_loaded = TRUE

RetOf(b) == IF b THEN "true" ELSE "false"

\* which instructions redirect the fetch, read off the instruction kind and
\* the operand values
Redirects(ins, a, b) ==
    \/ ins.type \in {"JAL", "JALR"}
    \/ ins.type = "BEQ" /\ a = b
    \/ ins.type = "BNE" /\ a # b
    \/ ins.type = "BLT" /\ a < b
    \/ ins.type = "BGE" /\ a >= b
    \/ ins.type = "BLTU" /\ LtU(a, b)
    \/ ins.type = "BGEU" /\ ~LtU(a, b)

RedirectTarget(ins, pc, a) ==
    IF ins.type = "JALR" THEN ClearLSB(Add(a, ins.imm)) ELSE Add(pc, ins.imm)

\* the value an instruction in MEM/WB commits
CommitValue(mw) == IF mw.ins.mem_to_reg THEN mw.mem_data ELSE mw.alu_result

\* The history after one cycle.  s is the state before the cycle, b the state
\* in which stage_ex starts, ops the operands it selects, e the state it
\* leaves and t the state after the cycle.  A latch that is valid after the
\* cycle holds the instruction that stood one latch earlier before it.
Observe(h, s, b, ops, e, t) ==
    [entry  |-> h.entry,
     nfetch |-> IF t.p.stalled THEN h.nfetch ELSE h.nfetch + 1,
     t_if   |-> IF ~t.p.stalled THEN h.nfetch + 1
                ELSE IF t.p.if_id.valid THEN h.t_if ELSE 0,
     t_id   |-> IF t.p.id_ex.valid THEN h.t_if ELSE 0,
     t_ex   |-> IF t.p.ex_mem.valid THEN h.t_id ELSE 0,
     t_mem  |-> IF t.p.mem_wb.valid THEN h.t_ex ELSE 0,
     squashed |->
        IF b.p.id_ex.valid
           /\ Redirects(b.p.id_ex.ins, ops.rs1_val, ops.rs2_val)
        THEN h.squashed \cup ((h.t_id + 1) .. h.nfetch)
        ELSE h.squashed,
     wrote |->
        h.wrote
        \cup (IF s.p.mem_wb.valid /\ s.p.mem_wb.ins.reg_write
                 /\ s.p.mem_wb.ins.rd # 0
              THEN {h.t_mem} ELSE {})
        \cup (IF s.p.ex_mem.valid /\ s.p.ex_mem.ins.mem_write
                 /\ s.p.ex_mem.ins.type \in {"SB", "SH", "SW"}
              THEN {h.t_ex} ELSE {}),
     exlog |->
        IF b.p.id_ex.valid
        THEN (h.t_id :> [ins |-> b.p.id_ex.ins, pc |-> b.p.id_ex.pc,
                         rs1_val |-> ops.rs1_val, rs2_val |-> ops.rs2_val,
                         stalls |-> s.p.stalls, flushes |-> s.p.flushes])
             @@ h.exlog
        ELSE h.exlog,
     commit |->
        IF t.p.mem_wb.valid
        THEN (h.t_ex :> [ins |-> t.p.mem_wb.ins,
                         value |-> CommitValue(t.p.mem_wb)]) @@ h.commit
        ELSE h.commit,
     br |->
        IF b.p.id_ex.valid
           /\ Redirects(b.p.id_ex.ins, ops.rs1_val, ops.rs2_val)
        THEN [tag |-> h.t_id,
              target |-> RedirectTarget(b.p.id_ex.ins, b.p.id_ex.pc,
                                        ops.rs1_val),
              pc |-> e.p.pc, next_pc |-> e.p.next_pc,
              if_id |-> e.p.if_id, id_ex |-> e.p.id_ex,
              flushes_before |-> b.p.flushes, flushes |-> e.p.flushes]
        ELSE h.br]

\* the state in which stage_ex starts in the cycle that begins in state s
BeforeEX(s) ==
    stage_mem(stage_wb(cycle_hazard(s, detect_load_use_hazard(s.p))))

\* Emulator::cmd_set_pc, here before the first step or cycle
SetPc ==
    /\ \E addr \in {DATA_BASE} :
          \/ /\ mode = "single"
             /\ cpu.cycles = 0 /\ cpu.pc = TEXT_BASE
             /\ cpu' = [cpu EXCEPT !.pc = addr]
             /\ pipe' = pipe
             /\ hist' = [hist EXCEPT !.entry = addr]
          \/ /\ mode = "pipeline"
             /\ pipe.cycles = 0 /\ pipe.pc = TEXT_BASE
             /\ pipe' = [pipe EXCEPT !.pc = addr, !.next_pc = Add(addr, 4)]
             /\ cpu' = cpu
             /\ hist' = [hist EXCEPT !.entry = addr]
    /\ UNCHANGED <<prog, data, mode, mem, regs, ret>>
    /\ UNCHANGED asm_vars

\* a step after which x5 holds a value the state does not determine
Step_leaving_x5_open ==
    /\ mode = "single"
    /\ cpu.halted \/ cpu.cycles < MaxSteps
    /\ \E r \in {step([mem |-> mem, regs |-> regs, c |-> cpu])},
          v \in {0, 1} :
           /\ mem' = r.s.mem
           /\ regs' = [r.s.regs EXCEPT ![5] = v]
           /\ cpu' = r.s.c
           /\ ret' = RetOf(r.ret)
    /\ UNCHANGED <<prog, data, mode, pipe, hist>>
    /\ UNCHANGED asm_vars

\* Emulator::cmd_step in single-cycle mode: one CPU::step()
Step ==
    /\ mode = "single"
    /\ cpu.halted \/ cpu.cycles < MaxSteps
    /\ \E r \in {step([mem |-> mem, regs |-> regs, c |-> cpu])} :
           /\ mem' = r.s.mem
           /\ regs' = r.s.regs
           /\ cpu' = r.s.c
           /\ ret' = RetOf(r.ret)
    /\ UNCHANGED <<prog, data, mode, pipe, hist>>
    /\ UNCHANGED asm_vars

\* Emulator::cmd_step in pipeline mode: one Pipeline::cycle()
Cycle ==
    /\ mode = "pipeline"
    /\ pipe.halted \/ pipe.cycles < MaxCycles
    /\ \E s \in {[mem |-> mem, regs |-> regs, p |-> pipe]} :
       \E r \in {cycle(s)}, b \in {BeforeEX(s)} :
       \E ops \in {ExOperands(b.p)}, e \in {stage_ex(b)} :
           /\ mem' = r.s.mem
           /\ regs' = r.s.regs
           /\ pipe' = r.s.p
           /\ ret' = RetOf(r.ret)
           /\ hist' = IF pipe.halted THEN hist
                      ELSE Observe(hist, s, b, ops, e, r.s)
    /\ UNCHANGED <<prog, data, mode, cpu>>
    /\ UNCHANGED asm_vars

\* a direct RegisterFile::write(0, v) call
WriteZero ==
    /\ \E v \in {1, -1} : regs' = RegisterFile_write(regs, 0, v)
    /\ UNCHANGED <<prog, data, mode, mem, cpu, pipe, ret, hist>>
    /\ UNCHANGED asm_vars

Next == SetPc \/ Step \/ Cycle \/ WriteZero

Spec == Init /\ [][Next]_vars

\* ------------------------------------------------------------------------
\* Assembler::assemble, one source line of one pass at a time
\* ------------------------------------------------------------------------
SrcLen == 2

\* The source lines the programs are made of, with the operands as split()
\* leaves them; L is the one label that a line can define, M is defined by
\* none.
SourceLines ==
    LET X(n) == [text |-> "x" \o ToString(n), k |-> "x", v |-> n]
        Name(w) == [text |-> w, k |-> "name", v |-> 0]
        Num(n) == [text |-> ToString(n), k |-> "num", v |-> n]
        MemOp(off, base) ==
            [text |-> ToString(off) \o "(" \o base.text \o ")", k |-> "mem",
             v |-> 0, has_off |-> TRUE, off_ok |-> TRUE, off |-> off,
             base |-> base]
        Ins(text, label, mnem, ops) ==
            [text |-> text, label |-> label, kind |-> "ins", mnem |-> mnem,
             ops |-> ops]
        Dir(text, label, mnem, ops) ==
            [text |-> text, label |-> label, kind |-> "dir", mnem |-> mnem,
             ops |-> ops]
    IN
    {Ins("addi x1, x0, 5", "", "addi", <<X(1), X(0), Num(5)>>),
     Ins("addi x1, x0, 5000", "", "addi", <<X(1), X(0), Num(5000)>>),
     Ins("add x3, x1, x2", "", "add", <<X(3), X(1), X(2)>>),
     Ins("L: ecall", "L", "ecall", << >>),
     Ins("beqz x1, L", "", "beqz", <<X(1), Name("L")>>),
     Ins("bnez x1, M", "", "bnez", <<X(1), Name("M")>>),
     Ins("bgt x1, x2, L", "", "bgt", <<X(1), X(2), Name("L")>>),
     Ins("beq x1, x0, L", "", "beq", <<X(1), X(0), Name("L")>>),
     Ins("j L", "", "j", <<Name("L")>>),
     Ins("call M", "", "call", <<Name("M")>>),
     Ins("la x1, L", "", "la", <<X(1), Name("L")>>),
     Ins("li x1, 100000", "", "li", <<X(1), Num(100000)>>),
     Ins("li x1, zz", "", "li", <<X(1), Name("zz")>>),
     Ins("foo x1", "", "foo", <<X(1)>>),
     Ins("addi q1, x0, 5", "", "addi", <<Name("q1"), X(0), Num(5)>>),
     Ins("addi x1, x0, zz", "", "addi", <<X(1), X(0), Name("zz")>>),
     Ins("lw ra, 4(sp)", "", "lw", <<Name("ra"), MemOp(4, Name("sp"))>>),
     Dir(".data", "", ".data", << >>),
     Dir(".word 7", "", ".word", <<Num(7)>>)}

\* what an uninitialised local can hold
Garbage == {0, -1}

InitAsm ==
    /\ source \in [1 .. SrcLen -> SourceLines]
    /\ assembler = Assembler_start
    /\ asm_pc = "pass1"
    /\ asm_result = Result(Assembler_start)
    /\ asmlog = AsmLog0
    /\ program_loaded = FALSE
    /\ prog = << >>
    /\ data = << >>
    /\ mode = "single"
    /\ mem = Memory_reset
    /\ regs = RegisterFile_reset
    /\ cpu = CPU_reset
    /\ pipe = Pipeline_reset
    /\ ret = "none"
    /\ hist = Hist0

\* one turn of the pass-1 loop
Pass1Line ==
    /\ asm_pc = "pass1"
    /\ assembler.line_num < Len(source)
    /\ \E g \in Garbage :
       \E a \in {process_line([assembler EXCEPT !.line_num = @ + 1],
                              source[assembler.line_num + 1], TRUE, g)} :
           /\ assembler' = a
           /\ asmlog' =
                [asmlog EXCEPT
                    !.advance = Append(@, a.text_addr - assembler.text_addr),
                    !.in_text = Append(@, ~assembler.in_data)]
    /\ UNCHANGED <<source, asm_pc, asm_result, program_loaded>>
    /\ UNCHANGED run_vars

\* between the passes
StartPass2 ==
    /\ asm_pc = "pass1"
    /\ assembler.line_num = Len(source)
    /\ assembler' = pass_start(assembler)
    /\ asm_pc' = "pass2"
    /\ UNCHANGED <<source, asm_result, asmlog, program_loaded>>
    /\ UNCHANGED run_vars

\* one turn of the pass-2 loop
Pass2Line ==
    /\ asm_pc = "pass2"
    /\ assembler.line_num < Len(source)
    /\ \E g \in Garbage :
       \E a \in {process_line([assembler EXCEPT !.line_num = @ + 1],
                              source[assembler.line_num + 1], FALSE, g)} :
           /\ assembler' = a
           /\ asmlog' =
                [asmlog EXCEPT
                    !.emitted = Append(@, 4 * (Len(a.text_out)
                                               - Len(assembler.text_out))),
                    !.at = Append(@, assembler.text_addr)]
    /\ UNCHANGED <<source, asm_pc, asm_result, program_loaded>>
    /\ UNCHANGED run_vars

\* the end of assemble()
Return ==
    /\ asm_pc = "pass2"
    /\ assembler.line_num = Len(source)
    /\ asm_result' = Result(assembler)
    /\ asm_pc' = "done"
    /\ UNCHANGED <<source, assembler, asmlog, program_loaded>>
    /\ UNCHANGED run_vars

NextAsm == Pass1Line \/ StartPass2 \/ Pass2Line \/ Return

SpecAsm == InitAsm /\ [][NextAsm]_vars

\* ------------------------------------------------------------------------
\* Properties of the two executors
\* ------------------------------------------------------------------------

\* CPU::run, cut off after n steps
RECURSIVE RunCPU(_, _)
RunCPU(s, n) ==
    IF n = 0 \/ s.c.halted THEN s ELSE RunCPU(step(s).s, n - 1)

\* the loaded image before the first step, entered at the PC that was set
Start ==
    [mem  |-> Loaded(prog, data).mem,
     regs |-> Loaded(prog, data).regs,
     c    |-> [CPU_reset EXCEPT !.pc = hist.entry]]

\* the single-cycle execution of the loaded program
Reference == RunCPU(Start, MaxSteps)

ByteAt(m, a) == IF a \in DOMAIN m.map THEN m.map[a] ELSE 0

SameBytes(m1, m2) ==
    \A a \in (DOMAIN m1.map) \cup (DOMAIN m2.map) : ByteAt(m1, a) = ByteAt(m2, a)

\* an instruction the pipeline's instruction counter is meant to count
IsReal(ins) == ins.type # "UNKNOWN" /\ ~is_nop(ins)

\* the real instructions among the first n the single-cycle executor runs
\* from s, up to and including the one that halts it
RECURSIVE RealCount(_, _)
RealCount(s, n) ==
    IF n = 0 \/ s.c.halted THEN 0
    ELSE (IF IsReal(decode(read_word(s.mem, s.c.pc).val, s.c.pc)) THEN 1 ELSE 0)
         + RealCount(step(s).s, n - 1)

\* the registers an instruction reads
ReadsRs1(ins) == ins.format \in {"R", "I", "S", "B"} /\ ins.rs1 # 0
ReadsRs2(ins) == ins.format \in {"R", "S", "B"} /\ ins.rs2 # 0

IsLoad(ins) == ins.type \in {"LB", "LH", "LW", "LBU", "LHU"}

\* C1: with hazard detection and forwarding both enabled, when the pipeline
\* halts on a program on which the single-cycle executor halts too, its
\* registers and memory bytes equal the ones the single-cycle executor leaves.
C1_PipelineEqualsSingleCycle ==
    (mode = "pipeline" /\ pipe.halted
        /\ pipe.hazard_detection /\ pipe.forwarding)
    => \A ref \in {Reference} :
           ref.c.halted => regs = ref.regs /\ SameBytes(mem, ref.mem)

\* C2: with hazard detection and forwarding enabled, an instruction that
\* directly follows a load and reads the load's destination register (not x0)
\* reaches EX after exactly one stall and no flush, and executes with the
\* value the load read from memory.
C2_LoadUseStallsOnceAndSeesLoad ==
    (pipe.hazard_detection /\ pipe.forwarding)
    => \A t \in DOMAIN hist.exlog :
          (/\ t - 1 \in DOMAIN hist.exlog
           /\ t - 1 \in DOMAIN hist.commit
           /\ IsLoad(hist.exlog[t - 1].ins)
           /\ hist.exlog[t - 1].ins.rd # 0
           /\ hist.exlog[t].pc = Add(hist.exlog[t - 1].pc, 4)
           /\ \/ ReadsRs1(hist.exlog[t].ins)
                 /\ hist.exlog[t].ins.rs1 = hist.exlog[t - 1].ins.rd
              \/ ReadsRs2(hist.exlog[t].ins)
                 /\ hist.exlog[t].ins.rs2 = hist.exlog[t - 1].ins.rd)
          => /\ hist.exlog[t].stalls = hist.exlog[t - 1].stalls + 1
             /\ hist.exlog[t].flushes = hist.exlog[t - 1].flushes
             /\ (ReadsRs1(hist.exlog[t].ins)
                 /\ hist.exlog[t].ins.rs1 = hist.exlog[t - 1].ins.rd)
                => hist.exlog[t].rs1_val = hist.commit[t - 1].value
             /\ (ReadsRs2(hist.exlog[t].ins)
                 /\ hist.exlog[t].ins.rs2 = hist.exlog[t - 1].ins.rd)
                => hist.exlog[t].rs2_val = hist.commit[t - 1].value

\* C3: when EX resolves a taken branch or a JAL/JALR it leaves pc and next_pc
\* at the target, IF/ID and ID/EX flushed and the flush counter two higher,
\* and no instruction fetched after the branch on the not-taken path ever
\* writes a register or memory.
C3_TakenBranchFlushesWrongPath ==
    /\ hist.br.tag # 0
       => /\ hist.br.pc = hist.br.target
          /\ hist.br.next_pc = hist.br.target
          /\ hist.br.if_id = IF_ID_flush
          /\ hist.br.id_ex = ID_EX_flush
          /\ hist.br.flushes = hist.br.flushes_before + 2
    /\ hist.squashed \cap hist.wrote = {}

\* a branch was taken with an instruction already fetched behind it, and a
\* younger instruction has since reached MEM/WB
C3_Witness ==
    /\ hist.br.tag # 0
    /\ \E t \in hist.squashed : hist.t_mem > t

\* C4: with forwarding enabled, in straight-line code an instruction in EX
\* that reads the destination (not x0) of the instruction two before it,
\* which the instruction between them does not write, executes with the value
\* that instruction commits.
C4_ForwardsFromTwoAhead ==
    pipe.forwarding
    => \A t \in DOMAIN hist.exlog :
          (/\ t - 1 \in DOMAIN hist.exlog
           /\ t - 2 \in DOMAIN hist.exlog
           /\ t - 2 \in DOMAIN hist.commit
           /\ hist.exlog[t - 1].pc = Add(hist.exlog[t - 2].pc, 4)
           /\ hist.exlog[t].pc = Add(hist.exlog[t - 1].pc, 4)
           /\ ~Redirects(hist.exlog[t - 2].ins, hist.exlog[t - 2].rs1_val,
                         hist.exlog[t - 2].rs2_val)
           /\ ~Redirects(hist.exlog[t - 1].ins, hist.exlog[t - 1].rs1_val,
                         hist.exlog[t - 1].rs2_val)
           /\ hist.exlog[t - 2].ins.reg_write
           /\ hist.exlog[t - 2].ins.rd # 0
           /\ ~(hist.exlog[t - 1].ins.reg_write
                /\ hist.exlog[t - 1].ins.rd = hist.exlog[t - 2].ins.rd))
          => /\ (ReadsRs1(hist.exlog[t].ins)
                 /\ hist.exlog[t].ins.rs1 = hist.exlog[t - 2].ins.rd)
                => hist.exlog[t].rs1_val = hist.commit[t - 2].value
             /\ (ReadsRs2(hist.exlog[t].ins)
                 /\ hist.exlog[t].ins.rs2 = hist.exlog[t - 2].ins.rd)
                => hist.exlog[t].rs2_val = hist.commit[t - 2].value

\* C5: when the pipeline halts, its instruction counter equals the number of
\* instructions, other than NOPs and UNKNOWN words, that the program executes
\* in program order up to and including the halting ECALL.
C5_CounterCountsRealInstructions ==
    (mode = "pipeline" /\ pipe.halted)
    => \A ref \in {Reference} :
           ref.c.halted => pipe.instructions = RealCount(Start, MaxSteps)

\* C6: the pipeline halts exactly in the cycle that has ECALL in WB, and that
\* cycle() returns false; the single-cycle executor halts exactly in the step
\* that fetches ECALL, which returns false and changes neither the PC nor a
\* register nor a memory byte; a cycle() or step() of a halted executor
\* returns false and changes nothing.
C6_EcallHalts ==
    [][/\ (mode = "pipeline" /\ ~pipe.halted /\ pipe'.cycles # pipe.cycles)
          => /\ pipe'.halted
                <=> (pipe.mem_wb.valid /\ pipe.mem_wb.ins.type = "ECALL")
             /\ pipe'.halted => ret' = "false"
       /\ (mode = "single" /\ ~cpu.halted /\ cpu'.cycles # cpu.cycles)
          => /\ cpu'.halted
                <=> (decode(read_word(mem, cpu.pc).val, cpu.pc).type = "ECALL")
             /\ cpu'.halted
                => /\ ret' = "false"
                   /\ cpu'.pc = cpu.pc
                   /\ regs' = regs
                   /\ mem'.map = mem.map
       /\ (mode = "pipeline" /\ pipe.halted)
          => (pipe' = pipe /\ regs' = regs /\ mem' = mem /\ ret' = "false")
       /\ (mode = "single" /\ cpu.halted)
          => (cpu' = cpu /\ regs' = regs /\ mem' = mem /\ ret' = "false")
      ]_vars

\* the pipeline has halted on an ECALL that travelled through all five stages
C6_Witness ==
    /\ mode = "pipeline" /\ pipe.halted /\ ret = "false"
    /\ pipe.mem_wb.valid /\ hist.nfetch >= 5

\* C7: register 0 reads as 0 and holds 0 in every reachable state, and a
\* write to index 0 changes no register.
C7_RegisterZeroIsZero ==
    /\ RegisterFile_read(regs, 0) = 0
    /\ regs[0] = 0
    /\ \A v \in {1, -1} : RegisterFile_write(regs, 0, v) = regs

\* registers have been written by the program while x0 stayed writable
\* through the direct call
C7_Witness ==
    /\ \E r \in 1 .. NUM_REGISTERS - 1 : r # 2 /\ regs[r] # 0
    /\ ENABLED WriteZero

\* C8: executing a word that decodes to UNKNOWN changes no register and no
\* memory byte and moves the PC on by 4: the single-cycle step on such a
\* word, and in the pipeline the WB, MEM and EX of such a word.
C8_UnknownIsNoOp ==
    [][/\ (mode = "single" /\ ~cpu.halted /\ cpu'.cycles # cpu.cycles
             /\ decode(read_word(mem, cpu.pc).val, cpu.pc).type = "UNKNOWN")
          => /\ regs' = regs
             /\ mem'.map = mem.map
             /\ cpu'.pc = Add(cpu.pc, 4)
       /\ (mode = "pipeline" /\ ~pipe.halted /\ pipe'.cycles # pipe.cycles)
          => /\ (pipe.mem_wb.valid /\ pipe.mem_wb.ins.type = "UNKNOWN")
                => regs' = regs
             /\ (pipe.ex_mem.valid /\ pipe.ex_mem.ins.type = "UNKNOWN")
                => mem'.map = mem.map
             /\ (pipe'.ex_mem.valid /\ pipe'.ex_mem.ins.type = "UNKNOWN")
                => ~pipe'.ex_mem.branch_taken
      ]_vars

\* ------------------------------------------------------------------------
\* Properties of the assembler
\* ------------------------------------------------------------------------

\* every mnemonic handle_pseudo or handle_instruction knows
Mnemonics ==
    DOMAIN r_ops \cup DOMAIN i_arith \cup DOMAIN loads \cup DOMAIN stores
    \cup DOMAIN branches \cup DOMAIN pseudo_branches
    \cup DOMAIN pseudo_branches3
    \cup {"slli", "srli", "srai", "jal", "jalr", "lui", "auipc", "ecall",
          "ebreak", "nop", "mv", "not", "neg", "seqz", "snez", "sltz", "sgtz",
          "li", "la", "j", "jr", "ret", "call", "tail"}

\* what each operand of an instruction with n operands is read as: "r" a
\* register, "i" an immediate, "m" offset(base), "l" a branch or jump target
Roles(mnem, n) ==
    IF mnem \in DOMAIN r_ops THEN <<"r", "r", "r">>
    ELSE IF mnem \in DOMAIN i_arith \cup {"slli", "srli", "srai"}
         THEN <<"r", "r", "i">>
    ELSE IF mnem \in DOMAIN loads \cup DOMAIN stores THEN <<"r", "m">>
    ELSE IF mnem \in DOMAIN branches \cup DOMAIN pseudo_branches3
         THEN <<"r", "r", "l">>
    ELSE IF mnem \in DOMAIN pseudo_branches \cup {"la"} THEN <<"r", "l">>
    ELSE IF mnem = "jal" THEN (IF n = 1 THEN <<"l">> ELSE <<"r", "l">>)
    ELSE IF mnem = "jalr"
         THEN (IF n = 1 THEN <<"r">>
               ELSE IF n = 2 THEN <<"r", "m">> ELSE <<"r", "r", "i">>)
    ELSE IF mnem \in {"lui", "auipc", "li"} THEN <<"r", "i">>
    ELSE IF mnem \in {"mv", "not", "neg", "seqz", "snez", "sltz", "sgtz"}
         THEN <<"r", "r">>
    ELSE IF mnem \in {"j", "call", "tail"} THEN <<"l">>
    ELSE IF mnem = "jr" THEN <<"r">>
    ELSE << >>

\* C9: after assembly, for every source line the bytes by which pass 1
\* advanced the text cursor equal the bytes pass 2 emitted for the line, and
\* every text label's address in the symbol table is the address at which
\* pass 2 stood when it reached the label's line (where it emits the
\* instruction that follows the label).
C9_Pass1AdvanceEqualsPass2Emit ==
    asm_pc = "done" =>
        /\ \A i \in 1 .. Len(source) : asmlog.advance[i] = asmlog.emitted[i]
        /\ \A i \in 1 .. Len(source) :
              (/\ source[i].label # ""
               /\ asmlog.in_text[i]
               /\ \A j \in (i + 1) .. Len(source) :
                      source[j].label # source[i].label)
              => asm_result.symbols[source[i].label] = asmlog.at[i]

\* C10: after assembly, every instruction line of the text section with an
\* unknown mnemonic, a reference to an undefined label (a target operand
\* that is a word and no label of the program) or a malformed operand (an
\* invalid register name, an unparseable immediate or offset(base)) has an
\* error with its line number in the error list, and success is true exactly
\* when the error list is empty.
C10_EveryFaultIsReported ==
    LET WellFormed(line) ==
            /\ line.mnem \in Mnemonics
            /\ Len(line.ops) = Len(Roles(line.mnem, Len(line.ops)))
        Role(line, i) == Roles(line.mnem, Len(line.ops))[i]
        Malformed(line) ==
            \E i \in 1 .. Len(line.ops) :
                \/ Role(line, i) = "r" /\ parse_reg(line.ops[i]) = -1
                \/ Role(line, i) = "i" /\ ~parse_imm(line.ops[i], 0).ok
                \/ Role(line, i) = "m" /\ ~parse_mem(line.ops[i], 0, 0).ok
        UndefinedLabel(line) ==
            \E i \in 1 .. Len(line.ops) :
                /\ Role(line, i) = "l"
                /\ line.ops[i].k = "name"
                /\ line.ops[i].text \notin DOMAIN asm_result.symbols
        Messages(line) ==
            {"Unknown instruction: " \o line.mnem, "Invalid immediate",
             "Invalid jal format"}
            \cup {"Unknown label: " \o line.ops[i].text :
                     i \in 1 .. Len(line.ops)}
        Reported(i) ==
            \E k \in 1 .. Len(asm_result.errors), m \in Messages(source[i]) :
                asm_result.errors[k] = "Line " \o ToString(i) \o ": " \o m
    IN
    asm_pc = "done" =>
        /\ \A i \in 1 .. Len(source) :
              (/\ source[i].kind = "ins"
               /\ asmlog.in_text[i]
               /\ \/ source[i].mnem \notin Mnemonics
                  \/ /\ WellFormed(source[i])
                     /\ UndefinedLabel(source[i]) \/ Malformed(source[i]))
              => Reported(i)
        /\ asm_result.success <=> (asm_result.errors = << >>)

\* C11: after an assembly with zero errors, decoding the word emitted for a
\* register-register, register-immediate, load or store instruction whose
\* register operands are x<n> or ABI names gives the kind its mnemonic names,
\* the registers its operands name and the immediate (or offset) its
\* operand states.
C11_DecodeReproducesSource ==
    LET Kind ==
            [add |-> "ADD", sub |-> "SUB", sll |-> "SLL", slt |-> "SLT",
             sltu |-> "SLTU", xor |-> "XOR", srl |-> "SRL", sra |-> "SRA",
             or |-> "OR", and |-> "AND", mul |-> "MUL", mulh |-> "MULH",
             mulhsu |-> "MULHSU", mulhu |-> "MULHU", div |-> "DIV",
             divu |-> "DIVU", rem |-> "REM", remu |-> "REMU",
             addi |-> "ADDI", slti |-> "SLTI", sltiu |-> "SLTIU",
             xori |-> "XORI", ori |-> "ORI", andi |-> "ANDI",
             lb |-> "LB", lh |-> "LH", lw |-> "LW", lbu |-> "LBU",
             lhu |-> "LHU", sb |-> "SB", sh |-> "SH", sw |-> "SW"]
        \* the register an operand names: x<n> is n, an ABI name its number
        Reg(tok) == IF tok.k = "x" THEN tok.v
                    ELSE IF tok.text \in DOMAIN ABI THEN ABI[tok.text]
                    ELSE -1
        Word(i) == asm_result.text[(asmlog.at[i] - TEXT_BASE) \div 4 + 1]
        Dec(i) == decode(Word(i), asmlog.at[i])
        Matches(line, d) ==
            /\ d.type = Kind[line.mnem]
            /\ line.mnem \in DOMAIN r_ops =>
                  /\ d.rd = Reg(line.ops[1])
                  /\ d.rs1 = Reg(line.ops[2])
                  /\ d.rs2 = Reg(line.ops[3])
            /\ line.mnem \in DOMAIN i_arith =>
                  /\ d.rd = Reg(line.ops[1])
                  /\ d.rs1 = Reg(line.ops[2])
                  /\ d.imm = line.ops[3].v
            /\ line.mnem \in DOMAIN loads =>
                  /\ d.rd = Reg(line.ops[1])
                  /\ d.rs1 = Reg(line.ops[2].base)
                  /\ d.imm = line.ops[2].off
            /\ line.mnem \in DOMAIN stores =>
                  /\ d.rs2 = Reg(line.ops[1])
                  /\ d.rs1 = Reg(line.ops[2].base)
                  /\ d.imm = line.ops[2].off
    IN
    (asm_pc = "done" /\ asm_result.success) =>
        \A i \in 1 .. Len(source) :
            (/\ source[i].kind = "ins"
             /\ asmlog.in_text[i]
             /\ asmlog.emitted[i] = 4
             /\ source[i].mnem \in DOMAIN Kind
             /\ Len(source[i].ops) = Len(Roles(source[i].mnem, 0))
             /\ \A j \in 1 .. Len(source[i].ops) :
                   Roles(source[i].mnem, 0)[j] = "r"
                       => Reg(source[i].ops[j]) >= 0
             /\ source[i].mnem \in DOMAIN i_arith
                   => source[i].ops[3].k = "num"
             /\ source[i].mnem \in DOMAIN loads \cup DOMAIN stores
                   => source[i].ops[2].k = "mem")
            => Matches(source[i], Dec(i))

\* C18: with hazard detection disabled the pipeline never stalls: the
\* stalled flag is false and the stall counter has not moved in any state,
\* and every cycle of a pipeline that is not halted runs WB, MEM, EX, ID and
\* IF, whatever the instruction behind a load reads, and leaves a fetched
\* word in IF/ID.
C18_NoStallWithoutHazardDetection ==
    /\ [](~pipe.hazard_detection => (~pipe.stalled /\ pipe.stalls = 0))
    /\ [][(mode = "pipeline" /\ ~pipe.hazard_detection /\ ~pipe.halted
           /\ pipe'.cycles # pipe.cycles)
          => LET s == [mem |-> mem, regs |-> regs, p |-> pipe]
                 t == stage_if(stage_id(stage_ex(stage_mem(stage_wb(s)))))
             IN  /\ pipe' = [t.p EXCEPT !.cycles = @ + 1]
                 /\ mem' = t.mem
                 /\ regs' = t.regs
                 /\ pipe'.if_id.valid
      ]_vars

\* with hazard detection disabled, the instruction fetched right behind a
\* load that writes one of its source registers has followed it into ID/EX
C18_Witness ==
    /\ mode = "pipeline" /\ ~pipe.hazard_detection
    /\ pipe.ex_mem.valid /\ pipe.ex_mem.ins.mem_read
    /\ pipe.ex_mem.ins.rd # 0
    /\ pipe.id_ex.valid
    /\ pipe.ex_mem.ins.rd \in {pipe.id_ex.ins.rs1, pipe.id_ex.ins.rs2}
    /\ hist.t_id = hist.t_ex + 1

\* C19: with forwarding disabled the forwards counter never moves, and in
\* every cycle EX works on the rs1 and rs2 values latched in ID/EX: the
\* cycle leaves the state that EX leaves when its ALU operands, the store
\* data, the branch predicate and the JALR target are taken from them.
C19_NoForwardingUsesLatchedValues ==
    /\ [](~pipe.forwarding => pipe.forwards = 0)
    /\ [][(mode = "pipeline" /\ ~pipe.forwarding /\ ~pipe.halted
           /\ pipe'.cycles # pipe.cycles)
          => LET b == stage_mem(stage_wb([mem |-> mem, regs |-> regs,
                                          p |-> pipe]))
                 latched == [fwd_a |-> "NONE", fwd_b |-> "NONE", p |-> b.p,
                             rs1_val |-> b.p.id_ex.rs1_val,
                             rs2_val |-> b.p.id_ex.rs2_val]
                 e == IF b.p.id_ex.valid
                      THEN [b EXCEPT !.p = stage_ex_operands(b.p.id_ex,
                                                              latched)]
                      ELSE [b EXCEPT !.p.ex_mem = EX_MEM_flush]
                 t == cycle_return(cycle_front(
                          cycle_hazard(e, detect_load_use_hazard(pipe)))).s
             IN  /\ pipe' = t.p
                 /\ mem' = t.mem
                 /\ regs' = t.regs
                 /\ pipe'.forwards = pipe.forwards
                 /\ (b.p.id_ex.valid /\ b.p.id_ex.ins.mem_write)
                    => pipe'.ex_mem.rs2_val = pipe.id_ex.rs2_val
      ]_vars

\* with forwarding disabled, an instruction went through EX right behind
\* the instruction that writes one of its source registers
C19_Witness ==
    /\ mode = "pipeline" /\ ~pipe.forwarding
    /\ pipe.ex_mem.valid /\ pipe.mem_wb.valid
    /\ pipe.mem_wb.ins.reg_write /\ pipe.mem_wb.ins.rd # 0
    /\ pipe.mem_wb.ins.rd \in {pipe.ex_mem.ins.rs1, pipe.ex_mem.ins.rs2}
    /\ hist.t_ex = hist.t_mem + 1

C23_TargetFetchedOnce ==
    [][(/\ pipe'.cycles # pipe.cycles
        /\ ~pipe'.stalled
        /\ pipe.if_id.valid
        /\ pipe'.if_id.pc = pipe.if_id.pc)
       => (/\ pipe'.flushes # pipe.flushes
           /\ pipe'.ex_mem.branch_taken
           /\ pipe'.ex_mem.branch_target = pipe'.if_id.pc)]_vars

\* C24: nothing that follows the ECALL in program order takes effect: the
\* cycle that has the ECALL in WB, which halts the pipeline, changes no
\* memory byte and no register and counts no instruction (the ECALL was
\* counted when it passed MEM).
C24_NothingAfterEcallTakesEffect ==
    [][(/\ mode = "pipeline"
        /\ pipe'.cycles # pipe.cycles
        /\ pipe.mem_wb.valid /\ pipe.mem_wb.ins.type = "ECALL")
       => (/\ mem'.map = mem.map
           /\ regs' = regs
           /\ pipe'.instructions = pipe.instructions)]_vars

\* C25: with forwarding enabled, when a source register (not x0) of the
\* instruction in EX is the destination of the valid, register-writing,
\* non-load instruction that went through EX in the cycle before, EX works
\* on that instruction's ALU result held in EX/MEM in place of the value
\* latched in ID/EX (ALU operands, store data), and the forwards counter
\* goes up by one for each source so forwarded.
C25_ForwardsFromExMem ==
    [][(/\ mode = "pipeline" /\ pipe.forwarding /\ ~pipe.halted
        /\ pipe'.cycles # pipe.cycles
        /\ pipe.id_ex.valid
        /\ pipe.ex_mem.valid /\ pipe.ex_mem.ins.reg_write
        /\ ~pipe.ex_mem.ins.mem_read
        /\ pipe.ex_mem.ins.rd # 0
        /\ pipe.ex_mem.ins.rd \in {pipe.id_ex.ins.rs1, pipe.id_ex.ins.rs2})
       => LET ins == pipe.id_ex.ins
              m1 == ins.rs1 = pipe.ex_mem.ins.rd
              m2 == ins.rs2 = pipe.ex_mem.ins.rd
              x  == hist'.exlog[hist.t_id]
              v1 == IF m1 THEN pipe.ex_mem.alu_result ELSE pipe.id_ex.rs1_val
              v2 == IF m2 THEN pipe.ex_mem.alu_result ELSE pipe.id_ex.rs2_val
          IN  /\ x.rs1_val = v1
              /\ x.rs2_val = v2
              /\ pipe'.ex_mem.alu_result
                     = ex_alu_result(ins, pipe.id_ex.pc, v1, v2)
              /\ pipe'.ex_mem.rs2_val = v2
              /\ pipe'.forwards = pipe.forwards
                                    + (IF m1 THEN 1 ELSE 0)
                                    + (IF m2 THEN 1 ELSE 0)
      ]_vars

\* add x3, x3, x1 went through EX right behind addi x1, x0, 5 and added the
\* 5 that was not yet in the register file
C25_Witness ==
    /\ mode = "pipeline" /\ pipe.forwarding
    /\ pipe.mem_wb.valid /\ pipe.mem_wb.ins.type = "ADDI"
    /\ pipe.mem_wb.ins.rd = 1 /\ pipe.mem_wb.alu_result = 5
    /\ pipe.ex_mem.valid /\ pipe.ex_mem.ins.type = "ADD"
    /\ pipe.ex_mem.ins.rs2 = 1 /\ pipe.ex_mem.alu_result = 5
    /\ hist.t_ex = hist.t_mem + 1
    /\ regs[1] = 0
    /\ pipe.forwards = 1

\* C26: when EX/MEM and MEM/WB both hold valid register-writing instructions
\* whose rd is a source register (not x0) of the instruction in EX, EX works
\* on the ALU result held in EX/MEM, the later of the two producers, and the
\* hazard unit selects EX/MEM for that source.
C26_ExMemWinsOverMemWb ==
    [][(/\ mode = "pipeline" /\ pipe.forwarding /\ ~pipe.halted
        /\ pipe'.cycles # pipe.cycles
        /\ pipe.id_ex.valid
        /\ pipe.ex_mem.valid /\ pipe.ex_mem.ins.reg_write
        /\ pipe.mem_wb.valid /\ pipe.mem_wb.ins.reg_write
        /\ pipe.ex_mem.ins.rd = pipe.mem_wb.ins.rd
        /\ pipe.ex_mem.ins.rd # 0)
       => LET ins == pipe.id_ex.ins
              rd  == pipe.ex_mem.ins.rd
              x   == hist'.exlog[hist.t_id]
          IN  /\ ins.rs1 = rd
                 => /\ x.rs1_val = pipe.ex_mem.alu_result
                    /\ HazardUnit_get_forward(ins.rs1, pipe.ex_mem,
                                              pipe.mem_wb) = "EX_MEM"
              /\ ins.rs2 = rd
                 => /\ x.rs2_val = pipe.ex_mem.alu_result
                    /\ HazardUnit_get_forward(ins.rs2, pipe.ex_mem,
                                              pipe.mem_wb) = "EX_MEM"
                    /\ ins.mem_write
                       => pipe'.ex_mem.rs2_val = pipe.ex_mem.alu_result
      ]_vars

\* lw x1, 0(x0); addi x1, x0, 5; add x3, x3, x1: the add went through EX in
\* the cycle whose WB wrote the loaded word to x1, and added the 5 of the addi
C26_Witness ==
    /\ mode = "pipeline" /\ pipe.forwarding
    /\ pipe.mem_wb.valid /\ pipe.mem_wb.ins.type = "ADDI"
    /\ pipe.mem_wb.ins.rd = 1 /\ pipe.mem_wb.alu_result = 5
    /\ pipe.ex_mem.valid /\ pipe.ex_mem.ins.type = "ADD"
    /\ pipe.ex_mem.ins.rs2 = 1 /\ pipe.ex_mem.alu_result = 5
    /\ regs[1] = 8323
    /\ hist.t_ex = hist.t_mem + 1

\* C27: at the end of a cycle in which EX resolved a taken branch or jump,
\* the address the fetch stage read in that cycle is the branch target held
\* in EX/MEM.
C27_FirstFetchIsTarget ==
    /\ [](mode = "pipeline" /\ pipe.ex_mem.valid /\ pipe.ex_mem.branch_taken
            => /\ pipe.if_id.valid
               /\ pipe.if_id.pc = pipe.ex_mem.branch_target)
    /\ [][(/\ mode = "pipeline" /\ pipe'.cycles # pipe.cycles
           /\ pipe'.ex_mem.valid /\ pipe'.ex_mem.branch_taken)
          => /\ pipe'.if_id.pc = pipe'.ex_mem.branch_target
             /\ pipe'.if_id.instruction
                    = read_word(mem', pipe'.ex_mem.branch_target).val]_vars

\* jal x1, +8 at the entry was resolved and the word at 8 fetched
C27_Witness ==
    /\ mode = "pipeline"
    /\ pipe.ex_mem.valid /\ pipe.ex_mem.branch_taken
    /\ pipe.ex_mem.ins.type = "JAL"
    /\ pipe.ex_mem.branch_target = Add(pipe.ex_mem.ins.pc, 8)
    /\ pipe.if_id.valid /\ pipe.if_id.pc = pipe.ex_mem.branch_target
    /\ pipe.flushes = 2

\* C28: a taken branch or jump costs exactly two bubbles: in each of the two
\* cycles after the one in which EX resolved it, EX finds ID/EX invalid.
C28_TakenBranchCostsTwoBubbles ==
    [][(/\ mode = "pipeline" /\ pipe'.cycles # pipe.cycles
        /\ pipe.ex_mem.valid /\ pipe.ex_mem.branch_taken)
       => (~pipe.id_ex.valid /\ ~pipe'.id_ex.valid)]_vars

\* C29: in a stalled cycle WB, MEM and EX run, ID/EX becomes a bubble, IF/ID,
\* pc and next_pc stay as they are, and stalls and cycles each go up by one;
\* the cycle after it is not stalled and decodes the held instruction into
\* ID/EX.
C29_StalledCycleFrame ==
    [][/\ (/\ mode = "pipeline" /\ ~pipe.halted
           /\ pipe'.cycles # pipe.cycles
           /\ detect_load_use_hazard(pipe))
          => LET t == stage_ex(stage_mem(stage_wb(
                          [mem |-> mem, regs |-> regs, p |-> pipe])))
             IN  /\ pipe'.stalled
                 /\ regs' = t.regs
                 /\ mem' = t.mem
                 /\ pipe'.mem_wb = t.p.mem_wb
                 /\ pipe'.ex_mem = t.p.ex_mem
                 /\ pipe'.ex_mem.valid /\ pipe'.ex_mem.ins = pipe.id_ex.ins
                 /\ pipe'.instructions = t.p.instructions
                 /\ pipe'.forwards = t.p.forwards
                 /\ pipe'.id_ex = ID_EX_flush
                 /\ pipe'.if_id = pipe.if_id
                 /\ pipe'.pc = pipe.pc
                 /\ pipe'.next_pc = pipe.next_pc
                 /\ pipe'.stalls = pipe.stalls + 1
                 /\ pipe'.cycles = pipe.cycles + 1
                 /\ pipe'.flushes = pipe.flushes
       /\ (/\ mode = "pipeline" /\ ~pipe.halted
           /\ pipe'.cycles # pipe.cycles
           /\ ~detect_load_use_hazard(pipe))
          => (~pipe'.stalled /\ pipe'.stalls = pipe.stalls)
       /\ (/\ mode = "pipeline" /\ ~pipe.halted
           /\ pipe'.cycles # pipe.cycles
           /\ pipe.stalled)
          => /\ ~pipe'.stalled
             /\ pipe'.stalls = pipe.stalls
             /\ pipe'.id_ex.valid
             /\ pipe'.id_ex.ins = decode(pipe.if_id.instruction, pipe.if_id.pc)
             /\ pipe'.id_ex.pc = pipe.if_id.pc
             /\ pipe'.if_id.pc = pipe.pc
      ]_vars

\* lw x1, 0(x0); add x3, x3, x1: the cycle after the stall has decoded the
\* add, with the bubble in EX/MEM and the load in MEM/WB
C29_Witness ==
    /\ mode = "pipeline" /\ pipe.hazard_detection
    /\ pipe.stalls = 1 /\ ~pipe.stalled
    /\ pipe.id_ex.valid /\ pipe.id_ex.ins.type = "ADD"
    /\ ~pipe.ex_mem.valid
    /\ pipe.mem_wb.valid /\ pipe.mem_wb.ins.type = "LW"
    /\ hist.t_id = hist.t_mem + 1

\* C31: for a JAL or JALR in EX the pipeline leaves in EX/MEM the jump's own
\* PC + 4 as ALU result, branch_taken set and the target PC + imm (JAL) or
\* (selected rs1 + imm) with bit 0 cleared (JALR), and fetches from that
\* target; WB writes the jump's own PC + 4 to rd; link value and target are
\* the ones CPU::step computes for the same instruction, PC and rs1 value.
C31_JumpLinkAndTarget ==
    [][/\ (/\ mode = "pipeline" /\ ~pipe.halted
           /\ pipe'.cycles # pipe.cycles
           /\ pipe.id_ex.valid /\ pipe.id_ex.ins.type \in {"JAL", "JALR"})
          => LET ins == pipe.id_ex.ins
                 pc  == pipe.id_ex.pc
                 x   == hist'.exlog[hist.t_id]
                 target == IF ins.type = "JAL" THEN Add(pc, ins.imm)
                           ELSE ClearLSB(Add(x.rs1_val, ins.imm))
                 ref == step([mem  |-> mem,
                              regs |-> RegisterFile_write(regs, ins.rs1,
                                                          x.rs1_val),
                              c    |-> [CPU_reset EXCEPT !.pc = pc]]).s
             IN  /\ pipe'.ex_mem.valid /\ pipe'.ex_mem.ins = ins
                 /\ pipe'.ex_mem.alu_result = Add(pc, 4)
                 /\ pipe'.ex_mem.branch_taken
                 /\ pipe'.ex_mem.branch_target = target
                 /\ pipe'.if_id.valid /\ pipe'.if_id.pc = target
                 /\ ref.c.pc = target
                 /\ ins.rd # 0 => ref.regs[ins.rd] = Add(pc, 4)
       /\ (/\ mode = "pipeline" /\ ~pipe.halted
           /\ pipe'.cycles # pipe.cycles
           /\ pipe.mem_wb.valid /\ pipe.mem_wb.ins.type \in {"JAL", "JALR"})
          => /\ pipe.mem_wb.alu_result = Add(pipe.mem_wb.ins.pc, 4)
             /\ pipe.mem_wb.ins.rd # 0
                => regs'[pipe.mem_wb.ins.rd] = Add(pipe.mem_wb.ins.pc, 4)
      ]_vars

\* jal x1, +8 at the entry has written its link value 4 to x1, and a
\* jalr x0, 8(x1) that read it has redirected the fetch to 12
C31_Witness ==
    /\ mode = "pipeline"
    /\ regs[1] = 4
    /\ pipe.ex_mem.valid /\ pipe.ex_mem.ins.type = "JALR"
    /\ pipe.ex_mem.branch_taken /\ pipe.ex_mem.branch_target = 12
    /\ pipe.ex_mem.alu_result = Add(pipe.ex_mem.ins.pc, 4)
    /\ pipe.if_id.pc = 12

\* C32: with hazard detection enabled, whenever EX selects the EX/MEM
\* forwarding path for a source register, the instruction in EX/MEM is not a
\* load (mem_to_reg is false).
C32_NoForwardFromLoadInExMem ==
    [][(/\ mode = "pipeline" /\ ~pipe.halted
        /\ pipe.hazard_detection
        /\ pipe'.cycles # pipe.cycles
        /\ pipe.id_ex.valid)
       => LET b == BeforeEX([mem |-> mem, regs |-> regs, p |-> pipe])
              ops == ExOperands(b.p)
          IN  ("EX_MEM" \in {ops.fwd_a, ops.fwd_b})
              => ~b.p.ex_mem.ins.mem_to_reg
      ]_vars

\* with hazard detection and forwarding enabled, a consumer of a load was
\* held for one cycle and an operand has been forwarded since
C32_Witness ==
    /\ mode = "pipeline" /\ pipe.hazard_detection /\ pipe.forwarding
    /\ pipe.stalls = 1 /\ pipe.forwards >= 1
    /\ pipe.ex_mem.valid /\ pipe.ex_mem.ins.type = "ADD"
    /\ \E t \in DOMAIN hist.exlog : hist.exlog[t].ins.type = "LW"

\* C33: a latch that is not valid holds exactly what flush() writes (the NOP
\* word 0x00000013, rd = rs1 = rs2 = 0, zero values, branch_taken false), and
\* a stage that finds its input latch invalid has no effect: WB writes no
\* register, MEM touches no memory, counts no instruction and flushes
\* MEM/WB, EX flushes EX/MEM without forwarding or redirecting, ID flushes
\* ID/EX.
C33_InvalidLatchIsBubble ==
    /\ [](/\ ~pipe.if_id.valid
             => /\ pipe.if_id = IF_ID_flush
                /\ pipe.if_id.instruction = 19
          /\ ~pipe.id_ex.valid
             => /\ pipe.id_ex = ID_EX_flush
                /\ pipe.id_ex.ins.raw = 19
                /\ pipe.id_ex.ins.rd = 0 /\ pipe.id_ex.ins.rs1 = 0
                /\ pipe.id_ex.ins.rs2 = 0
                /\ pipe.id_ex.rs1_val = 0 /\ pipe.id_ex.rs2_val = 0
          /\ ~pipe.ex_mem.valid
             => /\ pipe.ex_mem = EX_MEM_flush
                /\ pipe.ex_mem.ins.raw = 19
                /\ pipe.ex_mem.ins.rd = 0 /\ pipe.ex_mem.ins.rs1 = 0
                /\ pipe.ex_mem.ins.rs2 = 0
                /\ pipe.ex_mem.alu_result = 0 /\ pipe.ex_mem.rs2_val = 0
                /\ ~pipe.ex_mem.branch_taken
          /\ ~pipe.mem_wb.valid
             => /\ pipe.mem_wb = MEM_WB_flush
                /\ pipe.mem_wb.ins.raw = 19
                /\ pipe.mem_wb.ins.rd = 0
                /\ pipe.mem_wb.alu_result = 0 /\ pipe.mem_wb.mem_data = 0)
    /\ [][(mode = "pipeline" /\ ~pipe.halted /\ pipe'.cycles # pipe.cycles)
          => /\ ~pipe.mem_wb.valid
                => (regs' = regs /\ ~pipe'.halted)
             /\ ~pipe.ex_mem.valid
                => /\ mem'.map = mem.map
                   /\ mem'.write_count = mem.write_count
                   /\ mem'.read_count
                        = mem.read_count + (IF pipe'.stalled THEN 0 ELSE 4)
                   /\ pipe'.instructions = pipe.instructions
                   /\ pipe'.mem_wb = MEM_WB_flush
             /\ ~pipe.id_ex.valid
                => /\ pipe'.ex_mem = EX_MEM_flush
                   /\ pipe'.forwards = pipe.forwards
                   /\ pipe'.flushes = pipe.flushes
                   /\ ~pipe'.stalled => pipe'.if_id.pc = pipe.pc
             /\ ~pipe.if_id.valid
                => pipe'.id_ex = ID_EX_flush
         ]_vars

\* a bubble stands in EX/MEM between two instructions, behind a load that
\* stalled its consumer or a branch that was taken
C33_Witness ==
    /\ mode = "pipeline" /\ pipe.cycles >= 4
    /\ pipe.id_ex.valid
    /\ ~pipe.ex_mem.valid /\ pipe.ex_mem = EX_MEM_flush
    /\ pipe.mem_wb.valid

\* C36: every cycle() call made while the pipeline has not halted raises the
\* cycle counter by exactly one, in stalled cycles and in the cycle that has
\* ECALL in WB too, and a call made while halted leaves it unchanged; no
\* other command changes it.
C36_CycleCounterAdvancesByOne ==
    [][/\ pipe'.cycles \in {pipe.cycles, pipe.cycles + 1}
       /\ (pipe'.cycles # pipe.cycles)
          <=> (/\ mode = "pipeline" /\ ~pipe.halted
               /\ ret' \in {"true", "false"}
               /\ hist'.nfetch + pipe'.stalls
                    = hist.nfetch + pipe.stalls + 1)
       /\ (mode = "pipeline" /\ ~pipe.halted /\ pipe'.stalls # pipe.stalls)
          => pipe'.cycles = pipe.cycles + 1
       /\ (/\ mode = "pipeline" /\ ~pipe.halted
           /\ pipe.mem_wb.valid /\ pipe.mem_wb.ins.type = "ECALL"
           /\ pipe' # pipe)
          => (pipe'.halted /\ pipe'.cycles = pipe.cycles + 1)
       /\ (mode = "pipeline" /\ pipe.halted) => pipe' = pipe
      ]_vars

\* the pipeline has halted after a run with a stalled cycle: every cycle
\* fetched or stalled, and the last call returned false
C36_Witness ==
    /\ mode = "pipeline" /\ pipe.halted
    /\ pipe.stalls = 1
    /\ pipe.cycles = hist.nfetch + 1
    /\ ret = "false"

\* ------------------------------------------------------------------------
\* Runs with breakpoints: the loaded program with hazard detection and
\* forwarding enabled, `break <addr>` before the first step or cycle, then
\* steps or cycles
\* ------------------------------------------------------------------------
InitBp == Init /\ pipe.hazard_detection /\ pipe.forwarding

\* Emulator::cmd_break
Break ==
    /\ \E addr \in {TEXT_BASE, TEXT_BASE + 8} :
          \/ /\ mode = "single"
             /\ cpu.cycles = 0
             /\ addr \notin cpu.breakpoints
             /\ cpu' = [cpu EXCEPT !.breakpoints = @ \cup {addr}]
             /\ pipe' = pipe
          \/ /\ mode = "pipeline"
             /\ pipe.cycles = 0
             /\ addr \notin pipe.breakpoints
             /\ pipe' = [pipe EXCEPT !.breakpoints = @ \cup {addr}]
             /\ cpu' = cpu
    /\ UNCHANGED <<prog, data, mode, mem, regs, ret, hist>>
    /\ UNCHANGED asm_vars

NextBp == Break \/ Step \/ Cycle

SpecBp == InitBp /\ [][NextBp]_vars

\* C20: a cycle() called while the pipeline's pc matches a breakpoint
\* returns false and runs no stage: no latch, register, memory byte or
\* counter changes in that call.
C20_BreakpointSuspendsNextCycle ==
    [][(mode = "pipeline" /\ has_breakpoint(pipe.breakpoints, pipe.pc)
        /\ pipe'.breakpoints = pipe.breakpoints)
       => (ret' = "false" /\ pipe' = pipe /\ regs' = regs /\ mem' = mem)
      ]_vars

\* ------------------------------------------------------------------------
\* Straight-line and branching runs of four instructions in pipeline mode,
\* long enough for an instruction to be decoded in the cycle in which the
\* instruction three slots ahead of it is written back
\* ------------------------------------------------------------------------
WbLen == 4

\* addi x1,x0,5; nop; add x3,x3,x1; lw x1,0(x0); beq x0,x0,+8;
\* addi x3,x0,1
WbPool == {5243027, 19, 1147315, 8323, 1123, 1048979}

InitWb ==
    /\ prog \in [1 .. WbLen -> WbPool]
    /\ \E w \in DataWords : data = WordBytes(w)
    /\ mode = "pipeline"
    /\ mem = Loaded(prog, data).mem
    /\ regs = Loaded(prog, data).regs
    /\ cpu = CPU_reset
    /\ \E hd \in BOOLEAN, fw \in BOOLEAN :
          pipe = [Pipeline_reset EXCEPT !.hazard_detection = hd,
                                        !.forwarding = fw]
    /\ ret = "none"
    /\ hist = Hist0
    /\ source = << >>
    /\ assembler = [Assembler_start EXCEPT !.text_out = prog,
                                           !.data_out = data]
    /\ asm_pc = "done"
    /\ asm_result = Result(assembler)
    /\ asmlog = AsmLog0
    /\ program_loaded = TRUE

NextWb == Cycle

SpecWb == InitWb /\ [][NextWb]_vars

\* C30: the rs1 and rs2 values ID latches into ID/EX are those of the
\* register file after the WB stage of the same cycle, so a register written
\* by WB in that cycle is latched with the written value; and with
\* forwarding disabled an instruction that reads the destination of an
\* instruction at least three fetch slots ahead of it, with no other writer
\* of that register between them, executes with the value that instruction
\* committed.
C30_DecodeSeesWriteBack ==
    /\ [][(/\ mode = "pipeline" /\ ~pipe.halted
           /\ pipe'.cycles # pipe.cycles
           /\ ~pipe'.stalled /\ pipe'.id_ex.valid)
          => LET ins == pipe'.id_ex.ins
                 wr  == /\ pipe.mem_wb.valid /\ pipe.mem_wb.ins.reg_write
                        /\ pipe.mem_wb.ins.rd # 0
             IN  /\ pipe'.id_ex.rs1_val = regs'[ins.rs1]
                 /\ pipe'.id_ex.rs2_val = regs'[ins.rs2]
                 /\ (wr /\ ins.rs1 = pipe.mem_wb.ins.rd)
                    => pipe'.id_ex.rs1_val = CommitValue(pipe.mem_wb)
                 /\ (wr /\ ins.rs2 = pipe.mem_wb.ins.rd)
                    => pipe'.id_ex.rs2_val = CommitValue(pipe.mem_wb)
                 /\ (mode = "pipeline" /\ ~wr) => regs' = regs
         ]_vars
    /\ [](~pipe.forwarding
          => \A r \in DOMAIN hist.exlog, w \in DOMAIN hist.exlog :
                LET reader == hist.exlog[r]
                    writer == hist.exlog[w].ins
                IN  (/\ w + 3 <= r
                     /\ writer.reg_write /\ writer.rd # 0
                     /\ \A t \in DOMAIN hist.exlog :
                           (w < t /\ t < r)
                           => ~(hist.exlog[t].ins.reg_write
                                /\ hist.exlog[t].ins.rd = writer.rd))
                    => /\ w \in DOMAIN hist.commit
                       /\ (ReadsRs1(reader.ins)
                           /\ reader.ins.rs1 = writer.rd)
                          => reader.rs1_val = hist.commit[w].value
                       /\ (ReadsRs2(reader.ins)
                           /\ reader.ins.rs2 = writer.rd)
                          => reader.rs2_val = hist.commit[w].value)

\* addi x1,x0,5; nop; nop; add x3,x3,x1 with forwarding disabled: the add,
\* decoded in the cycle whose WB wrote x1, has left EX with the sum 5
C30_Witness ==
    /\ mode = "pipeline" /\ ~pipe.forwarding
    /\ prog[1] = 5243027 /\ prog[4] = 1147315
    /\ pipe.cycles = 6
    /\ hist.t_ex = 4 /\ 1 \in hist.wrote
    /\ pipe.ex_mem.valid /\ pipe.ex_mem.ins.type = "ADD"
    /\ pipe.ex_mem.alu_result = 5
    /\ hist.exlog[4].rs2_val = 5

\* C34: the stall counter goes up only in a cycle that starts with a load
\* in ID/EX whose destination (not x0) the instruction in IF/ID reads as a
\* register operand: rs1 of an R-, I-, S- or B-format instruction, rs2 of an
\* R-, S- or B-format instruction.
C34_StallOnlyOnTrueLoadUse ==
    [][(/\ mode = "pipeline" /\ pipe'.cycles # pipe.cycles
        /\ pipe'.stalls # pipe.stalls)
       => LET next_ins == decode(pipe.if_id.instruction, pipe.if_id.pc)
              rd == pipe.id_ex.ins.rd
          IN  /\ pipe.id_ex.valid /\ IsLoad(pipe.id_ex.ins) /\ rd # 0
              /\ pipe.if_id.valid
              /\ \/ ReadsRs1(next_ins) /\ next_ins.rs1 = rd
                 \/ ReadsRs2(next_ins) /\ next_ins.rs2 = rd
      ]_vars

\* ------------------------------------------------------------------------
\* Pipeline::run on straight-line programs: up to RunLen instructions
\* without branches or jumps, followed by ECALL, started from reset
\* ------------------------------------------------------------------------
RunLen == 3

\* addi x1,x0,5; nop; add x3,x3,x1; lw x1,0(x0); sw x1,256(x0);
\* addi x3,x0,1
RunPool == {5243027, 19, 1147315, 8323, 269492259, 1048979}

InitRun ==
    /\ \E k \in 0 .. RunLen : \E body \in [1 .. k -> RunPool] :
          prog = body \o <<115>>
    /\ \E w \in DataWords : data = WordBytes(w)
    /\ mode = "pipeline"
    /\ mem = Loaded(prog, data).mem
    /\ regs = Loaded(prog, data).regs
    /\ cpu = CPU_reset
    /\ \E hd \in BOOLEAN, fw \in BOOLEAN :
          pipe = [Pipeline_reset EXCEPT !.hazard_detection = hd,
                                        !.forwarding = fw]
    /\ ret = "none"
    /\ hist = Hist0
    /\ source = << >>
    /\ assembler = [Assembler_start EXCEPT !.text_out = prog,
                                           !.data_out = data]
    /\ asm_pc = "done"
    /\ asm_result = Result(assembler)
    /\ asmlog = AsmLog0
    /\ program_loaded = TRUE

\* one iteration of the loop of Pipeline::run: a cycle() of a pipeline that
\* has not halted
RunEnabled ==
    /\ mode = "pipeline"
    /\ ~pipe.halted
    /\ pipe.cycles < 2 * Len(prog) + 6

RunCycle ==
    /\ RunEnabled
    /\ \E s \in {[mem |-> mem, regs |-> regs, p |-> pipe]} :
       \E r \in {cycle(s)}, b \in {BeforeEX(s)} :
       \E ops \in {ExOperands(b.p)}, e \in {stage_ex(b)} :
           /\ mem' = r.s.mem
           /\ regs' = r.s.regs
           /\ pipe' = r.s.p
           /\ ret' = RetOf(r.ret)
           /\ hist' = Observe(hist, s, b, ops, e, r.s)
    /\ UNCHANGED <<prog, data, mode, cpu>>
    /\ UNCHANGED asm_vars

NextRun == RunCycle

\* run() calls cycle() again as long as it returns true: weak fairness of
\* RunCycle.  A cycle() of a running pipeline always yields a next state and
\* raises the cycle counter, so RunCycle is enabled exactly when RunEnabled
\* holds, and the fairness condition is written with that guard.
RunFairness == []<>(~RunEnabled) \/ []<><<RunCycle>>_vars

SpecRun == InitRun /\ [][NextRun]_vars /\ RunFairness

\* C35: a straight-line program of n instructions whose last is ECALL,
\* started from reset, halts, and when it has halted the cycle counter is
\* n + 4 + the stall counter.
C35_StraightLineHaltsOnTime ==
    /\ [](pipe.halted => pipe.cycles = Len(prog) + 4 + pipe.stalls)
    /\ <>pipe.halted

\* a program of four instructions with one load-use stall halted after nine
\* cycles
C35_Witness ==
    /\ pipe.halted /\ Len(prog) = 4
    /\ pipe.stalls = 1 /\ pipe.cycles = 9
    /\ ret = "false"

\* ------------------------------------------------------------------------
\* Direct calls of the components' functions on a freshly constructed
\* emulator.  ret records the call: what was called, with which arguments,
\* and what came back.  The functions called keep no state between calls,
\* so a behaviour makes one call.
\* ------------------------------------------------------------------------
InitCalls ==
    /\ prog = << >>
    /\ data = << >>
    /\ mode = "single"
    /\ mem = Memory_reset
    /\ regs = RegisterFile_reset
    /\ cpu = CPU_reset
    /\ pipe = Pipeline_reset
    /\ ret = [op |-> "none"]
    /\ hist = Hist0
    /\ source = << >>
    /\ assembler = Assembler_start
    /\ asm_pc = "idle"
    /\ asm_result = Result(Assembler_start)
    /\ asmlog = AsmLog0
    /\ program_loaded = FALSE

\* The immediates of a format that the calls encode: every value of the
\* 12-bit and 13-bit ranges; of the 20-bit payloads and the 21-bit offsets,
\* zero, the ends and the values with one or two bits set, of either sign.
Immediates(format) ==
    LET P(lo) == {2 ^ k : k \in lo .. 18}
        S(lo) == {0, -524288, 524288 - 2 ^ lo}
                 \cup {s * p : s \in {1, -1}, p \in P(lo)}
                 \cup {x \in {s * (p + q) : s \in {1, -1},
                                            p \in P(lo), q \in P(lo)} :
                           x >= -524288 /\ x < 524288}
    IN  IF format \in {"I", "S"} THEN -2048 .. 2047
        ELSE IF format = "B" THEN {2 * x : x \in -2048 .. 2047}
        ELSE IF format = "U" THEN S(0)
        ELSE {2 * x : x \in S(0)}

\* enc_<format> with the opcode and funct3 of an instruction of the format
\* (addi, sw, beq, lui, jal) and register r in every register field; the
\* U payload is passed shifted into place, as the lui and auipc handlers do
encode(format, r, imm) ==
    IF format = "I" THEN enc_i(OP_IMM, r, 0, r, imm)
    ELSE IF format = "S" THEN enc_s(OP_STORE, 2, r, r, imm)
    ELSE IF format = "B" THEN enc_b(OP_BRANCH, 0, r, r, imm)
    ELSE IF format = "U" THEN enc_u(OP_LUI, r, ShiftLeft(imm, 12))
    ELSE enc_j(OP_JAL, r, imm)

\* Decoder::imm_<format>
decode_imm(format, raw) ==
    IF format = "I" THEN imm_i(raw)
    ELSE IF format = "S" THEN imm_s(raw)
    ELSE IF format = "B" THEN imm_b(raw)
    ELSE IF format = "U" THEN imm_u(raw)
    ELSE imm_j(raw)

\* enc_<format>(..., imm), then imm_<format> of the word
EncodeDecode ==
    /\ ret.op = "none"
    /\ \E format \in {"I", "S", "B", "U", "J"}, r \in {0, 31} :
       \E imm \in Immediates(format) :
       \E raw \in {encode(format, r, imm)} :
           ret' = [op |-> "encode", format |-> format, imm |-> imm,
                   raw |-> raw, decoded |-> decode_imm(format, raw)]
    /\ UNCHANGED <<prog, data, mode, mem, regs, cpu, pipe, hist>>
    /\ UNCHANGED asm_vars

LiImmediates ==
    {s * 2 ^ k + d : s \in {1, -1}, k \in 0 .. 30,
                     d \in {-2049, -2048, -1, 0, 1, 2047, 2048}}
    \cup {2147483647 - d : d \in {0, 2047, 2048, 4095, 4096}}
    \cup {INT_MIN + d : d \in {0, 1, 2047, 2048, 2049, 4096}}
    \cup {305419896}

\* the operands of `mnem xN, <second>` as process_line splits them
RegAnd(rd, second) ==
    <<[text |-> "x" \o ToString(rd), k |-> "x", v |-> rd], second>>

\* `li rd, imm` assembled in pass 1 and in pass 2, then the emitted words
\* loaded at TEXT_BASE and stepped through by the single-cycle CPU
LoadImmediate ==
    /\ ret.op = "none"
    /\ \E rd \in {5, 31}, imm \in LiImmediates :
       \E ops \in {RegAnd(rd, [text |-> ToString(imm), k |-> "num",
                               v |-> imm])} :
       \E p1 \in {handle_pseudo(Assembler_start, "li", ops, "li", TRUE).a},
          p2 \in {handle_pseudo(Assembler_start, "li", ops, "li", FALSE).a} :
       \E end \in {RunCPU([mem  |-> write_block(Memory_reset, TEXT_BASE,
                                                p2.text_out),
                           regs |-> RegisterFile_reset,
                           c    |-> CPU_reset], Len(p2.text_out))} :
           /\ ret' = [op |-> "li", rd |-> rd, imm |-> imm,
                      reserved |-> Sub(p1.text_addr, TEXT_BASE),
                      words |-> p2.text_out,
                      value |-> RegisterFile_read(end.regs, rd)]
           /\ assembler' = p2
           /\ mem' = end.mem
           /\ regs' = end.regs
           /\ cpu' = end.c
    /\ UNCHANGED <<prog, data, mode, pipe, hist>>
    /\ UNCHANGED <<source, asm_pc, asm_result, asmlog, program_loaded>>

\* C13: `li rd, imm` (rd a writable register) emits the single word
\* addi rd, x0, imm when -2048 <= imm < 2048, and otherwise lui rd, upper
\* followed by addi rd, rd, lower, the addi left out when lower = 0, with
\* upper = ((imm + 0x800) >> 12) & 0xFFFFF and lower = imm - (upper << 12);
\* lower lies in -2048 .. 2047, executing the emitted words leaves rd = imm,
\* and pass 1 reserves the bytes pass 2 emits.
C13_LoadImmediateMaterializes ==
    ret.op = "li" =>
        LET imm == ret.imm
            upper == (Add(imm, 2048) \div 4096) % 1048576
            lower == Sub(imm, ShiftLeft(upper, 12))
            n == Len(ret.words)
            Dec(i) == decode(ret.words[i], 0)
            IsAddi(i, rs1, val) ==
                /\ Dec(i).type = "ADDI" /\ Dec(i).rd = ret.rd
                /\ Dec(i).rs1 = rs1 /\ Dec(i).imm = val
        IN  /\ lower >= -2048 /\ lower <= 2047
            /\ ret.value = imm
            /\ ret.reserved = 4 * n
            /\ IF imm >= -2048 /\ imm < 2048
               THEN n = 1 /\ IsAddi(1, 0, imm)
               ELSE /\ Dec(1).type = "LUI" /\ Dec(1).rd = ret.rd
                    /\ Dec(1).imm = ShiftLeft(upper, 12)
                    /\ IF lower = 0 THEN n = 1
                       ELSE n = 2 /\ IsAddi(2, ret.rd, lower)

\* the constant of the specification's example was materialized in two
\* words, and so was one whose lower part is negative
C13_Witness ==
    /\ ret.op = "li"
    /\ Len(ret.words) = 2
    /\ ret.imm \in {305419896, 2147483647}

\* where `la` stands in the text, and the label addresses it is given
\* there: in the text before it, at it, behind it and across the 2 KiB
\* boundaries of the lower part, and in the data segment
LaAt == {0, 8, 2048, 4096}

LaLabels(at) ==
    {0, 4, at, at + 4, at + 8, at + 2040, at + 2044, at + 2048, at + 2052,
     8192}
    \cup {DATA_BASE + d : d \in {0, 4, 2044, 2048, 2052, 4096, 65536}}

\* `la rd, L` in pass 1 and in pass 2 after `at` bytes of nop, L defined at
\* `label`; then the two words loaded at `at` and stepped through by the
\* single-cycle CPU
LoadAddress ==
    /\ ret.op = "none"
    /\ \E rd \in {5, 31}, at \in LaAt :
       \E label \in LaLabels(at) :
       \E ops \in {RegAnd(rd, [text |-> "L", k |-> "name", v |-> 0])},
          a \in {[Assembler_start EXCEPT
                     !.labels = "L" :> label,
                     !.text_addr = at]} :
       \E p1 \in {handle_pseudo(a, "la", ops, "la", TRUE).a},
          p2 \in {handle_pseudo([a EXCEPT !.text_out =
                                    [i \in 1 .. at \div 4 |-> 19]],
                                "la", ops, "la", FALSE).a} :
       \E words \in {SubSeq(p2.text_out, at \div 4 + 1, Len(p2.text_out))} :
       \E end \in {RunCPU([mem  |-> write_block(Memory_reset, at, words),
                           regs |-> RegisterFile_reset,
                           c    |-> [CPU_reset EXCEPT !.pc = at]],
                          Len(words))} :
           /\ ret' = [op |-> "la", rd |-> rd, at |-> at, label |-> label,
                      reserved |-> Sub(p1.text_addr, at),
                      words |-> words,
                      value |-> RegisterFile_read(end.regs, rd)]
           /\ assembler' = p2
           /\ mem' = end.mem
           /\ regs' = end.regs
           /\ cpu' = end.c
    /\ UNCHANGED <<prog, data, mode, pipe, hist>>
    /\ UNCHANGED <<source, asm_pc, asm_result, asmlog, program_loaded>>

\* C14: `la rd, label` with a defined label emits exactly two words,
\* auipc rd, upper and addi rd, rd, lower, whose offsets added to the text
\* address of the auipc give the label's address; pass 1 reserves 8 bytes;
\* and after executing both rd holds the label's address, for labels in
\* the text before and after the la and in the data segment.
C14_LoadAddressAnchoredAtAuipc ==
    ret.op = "la" =>
        LET Dec(i) == decode(ret.words[i], 0)
        IN  /\ Len(ret.words) = 2
            /\ ret.reserved = 8
            /\ Dec(1).type = "AUIPC" /\ Dec(1).rd = ret.rd
            /\ Dec(2).type = "ADDI" /\ Dec(2).rd = ret.rd
            /\ Dec(2).rs1 = ret.rd
            /\ Add(Add(ret.at, Dec(1).imm), Dec(2).imm) = ret.label
            /\ ret.value = ret.label

\* the address of a label in the text before the la and of one in the data
\* segment, each across a boundary of the lower part, were loaded
C14_Witness ==
    /\ ret.op = "la"
    /\ \/ ret.at = 4096 /\ ret.label = 0
       \/ ret.at = 8 /\ ret.label = DATA_BASE + 2048

\* Memory calls: up to MaxWrites writes of a word or a half-word, each read
\* back at once, and a read of one byte.  The addresses are the bottom of
\* the address space and its top, where addr + 1 .. addr + 3 wrap to 0.
MaxWrites == 2

MemAddrs == {0, -1, -3}

MemValues(width) ==
    IF width = "word" THEN {305419896, -2130739455} ELSE {33023}

\* the addresses written so far
Written == IF ret.op = "write" THEN ret.written ELSE {}

\* write_word(addr, value); read_word(addr), or the same for a half-word
MemWrite ==
    /\ ret.op \in {"none", "write"}
    /\ mem.write_count < 4 * MaxWrites
    /\ \E width \in {"word", "half"}, addr \in MemAddrs :
       \E value \in MemValues(width) :
       \E r \in {IF width = "word"
                 THEN read_word(write_word(mem, addr, value), addr)
                 ELSE read_half(write_half(mem, addr, value), addr)} :
           /\ mem' = r.mem
           /\ ret' = [op |-> "write", width |-> width, addr |-> addr,
                      value |-> value, read |-> r.val,
                      written |-> Written \cup
                          {Add(addr, i) :
                              i \in 0 .. (IF width = "word" THEN 3 ELSE 1)}]
    /\ UNCHANGED <<prog, data, mode, regs, cpu, pipe, hist>>
    /\ UNCHANGED asm_vars

\* read_byte(addr)
MemRead ==
    /\ ret.op \in {"none", "write"}
    /\ \E addr \in MemAddrs \cup {1, 2, 3, DATA_BASE} :
       \E r \in {read_byte(mem, addr)} :
           /\ mem' = r.mem
           /\ ret' = [op |-> "read", addr |-> addr, read |-> r.val,
                      written |-> Written]
    /\ UNCHANGED <<prog, data, mode, regs, cpu, pipe, hist>>
    /\ UNCHANGED asm_vars

\* C15: a word read back at the address it was just written to is the word
\* written, and so is a half-word, also where the addresses of its upper
\* bytes wrap past 0xFFFFFFFF; the bytes lie least significant first at
\* ascending addresses; and a byte that was never written reads as 0.
C15_MemoryRoundTrip ==
    LET Stored(a) == IF a \in DOMAIN mem.map THEN mem.map[a] ELSE 0
        ByteOf(v, i) == (v \div (256 ^ i)) % 256
    IN  /\ ret.op = "write" =>
              /\ ret.read = ret.value
              /\ \A i \in 0 .. (IF ret.width = "word" THEN 3 ELSE 1) :
                     Stored(Add(ret.addr, i)) = ByteOf(ret.value, i)
        /\ ret.op = "read" /\ ret.addr \notin ret.written => ret.read = 0

\* a word was written and read back at 0xFFFFFFFF, its upper three bytes at
\* 0, 1 and 2
C15_Witness ==
    /\ ret.op = "write" /\ ret.width = "word"
    /\ ret.addr = -1 /\ ret.value = 305419896
    /\ 2 \in DOMAIN mem.map /\ mem.map[2] = 18

\* the operands of the divisions: zero, small values of either sign, values
\* around 2^16 and 2^30, and both ends of the signed range
DivOperands ==
    {0, 1, -1, 2, -2, 3, -3, 7, -7, 10, 65535, 65536, -65537, 1073741824,
     -1073741825, 305419896, -305419896, 2147483647, 2147483646,
     INT_MIN, INT_MIN + 1}

\* ALU::execute(op, a, b) for the four divisions
Divide ==
    /\ ret.op = "none"
    /\ \E alu_op \in {"DIV", "DIVU", "REM", "REMU"},
          a \in DivOperands, b \in DivOperands :
           ret' = [op |-> "alu", alu_op |-> alu_op, a |-> a, b |-> b,
                   result |-> ALU_execute(alu_op, a, b)]
    /\ UNCHANGED <<prog, data, mode, mem, regs, cpu, pipe, hist>>
    /\ UNCHANGED asm_vars

\* C16: a division returns a value for every pair of operands.  With a zero
\* divisor DIV and DIVU return 0xFFFFFFFF and REM and REMU the dividend;
\* INT_MIN / -1 gives INT_MIN for DIV and 0 for REM; otherwise DIV and REM
\* return the signed quotient truncated toward zero and its remainder (of
\* the dividend's sign, smaller in magnitude than the divisor), and DIVU
\* and REMU the unsigned quotient and remainder.
C16_DivisionNeverFaults ==
    ret.op = "alu" =>
        LET a == ret.a
            b == ret.b
            signed == ret.alu_op \in {"DIV", "REM"}
            quot == ret.alu_op \in {"DIV", "DIVU"}
            \* the other half of the result: ALU.execute of the partner op
            q == IF quot THEN ret.result
                 ELSE ALU_execute(IF signed THEN "DIV" ELSE "DIVU", a, b)
            r == IF ~quot THEN ret.result
                 ELSE ALU_execute(IF signed THEN "REM" ELSE "REMU", a, b)
            P == MulLow(q, b)
            Smaller(x, y) ==
                \/ x >= 0 /\ y > 0 /\ x < y
                \/ x >= 0 /\ y < 0 /\ y + x < 0
                \/ x <= 0 /\ y > 0 /\ x + y > 0
                \/ x <= 0 /\ y < 0 /\ x > y
        IN  /\ ret.result \in INT_MIN .. 2147483647
            /\ IF b = 0
               THEN ret.result = (IF quot THEN -1 ELSE a)
               ELSE IF signed /\ a = INT_MIN /\ b = -1
               THEN ret.result = (IF quot THEN INT_MIN ELSE 0)
               ELSE IF signed
               THEN /\ MulHighS(q, b) = (IF P < 0 THEN -1 ELSE 0)
                    /\ Add(P, r) = a
                    /\ a >= 0 => P >= 0 /\ r >= 0
                    /\ a <= 0 => P <= 0 /\ r <= 0
                    /\ Smaller(r, b)
               ELSE /\ MulHighU(q, b) = 0
                    /\ Add(P, r) = a
                    /\ ~LtU(a, P)
                    /\ LtU(r, b)

\* a division by zero, the overflowing division, a signed division with a
\* negative dividend and an unsigned one with the top bit set were made
C16_Witness ==
    /\ ret.op = "alu"
    /\ \/ ret.alu_op = "DIV" /\ ret.a = INT_MIN /\ ret.b = -1
       \/ ret.alu_op = "REM" /\ ret.a = -7 /\ ret.b = 2 /\ ret.result = -1
       \/ ret.alu_op = "DIVU" /\ ret.a = -1 /\ ret.b = 0

\* The instruction words stepped over: both jumps with rd = x0 and with
\* another rd (JALR also with rd = rs1 and with an odd offset), the six
\* branches on x1 and x2, an addi, a load, a store, ECALL and the word 0.
StepWords ==
    {enc_j(OP_JAL, 1, 8), enc_j(OP_JAL, 0, -4),
     enc_i(OP_JALR, 5, 0, 1, 3), enc_i(OP_JALR, 0, 0, 1, 8),
     enc_i(OP_JALR, 1, 0, 1, -4),
     enc_i(OP_IMM, 1, 0, 0, 5), enc_i(OP_LOAD, 1, 2, 0, 0),
     enc_s(OP_STORE, 2, 0, 1, 64), OP_SYSTEM, 0}
    \cup {enc_b(OP_BRANCH, f3, 1, 2, 16) : f3 \in {0, 1, 4, 5, 6, 7}}

MaxDirectSteps == 2

\* x1 and x2 are written, the word is stored at the PC, and CPU::step runs;
\* ret keeps the state the step started in
StepOnce ==
    /\ ret.op \in {"none", "step"}
    /\ ~cpu.halted
    /\ cpu.cycles < MaxDirectSteps
    /\ \E raw \in StepWords, v1 \in {0, 5, -1}, v2 \in {0, 5, -1} :
       \E s \in {[mem  |-> write_word(mem, cpu.pc, raw),
                  regs |-> RegisterFile_write(
                              RegisterFile_write(regs, 1, v1), 2, v2),
                  c    |-> cpu]} :
       \E r \in {step(s)} :
           /\ mem' = r.s.mem
           /\ regs' = r.s.regs
           /\ cpu' = r.s.c
           /\ ret' = [op |-> "step", raw |-> raw, before |-> s.regs,
                      c |-> cpu, returned |-> r.ret]
    /\ UNCHANGED <<prog, data, mode, pipe, hist>>
    /\ UNCHANGED asm_vars

\* C17: one step() of the single-cycle executor that is not halted, on an
\* instruction other than ECALL, sets the PC to PC + imm for JAL and for a
\* branch whose predicate holds, to rs1 + imm with bit 0 cleared for JALR,
\* and to PC + 4 otherwise; JAL and JALR write PC + 4 to rd when rd is not
\* x0; every executed step, the one on ECALL too, adds exactly 1 to the
\* cycle counter and to the instruction counter; and the two counters are
\* equal in every reachable state.
C17_StepNextPcAndCounters ==
    /\ cpu.cycles = cpu.instructions
    /\ ret.op = "step" =>
          LET pc == ret.c.pc
              ins == decode(ret.raw, pc)
              rs1 == RegisterFile_read(ret.before, ins.rs1)
              rs2 == RegisterFile_read(ret.before, ins.rs2)
              sum == Add(rs1, ins.imm)
              holds == CASE ins.type = "BEQ"  -> rs1 = rs2
                         [] ins.type = "BNE"  -> rs1 # rs2
                         [] ins.type = "BLT"  -> rs1 < rs2
                         [] ins.type = "BGE"  -> rs1 >= rs2
                         [] ins.type = "BLTU" -> LtU(rs1, rs2)
                         [] ins.type = "BGEU" -> ~LtU(rs1, rs2)
                         [] OTHER -> FALSE
          IN  /\ cpu.cycles = ret.c.cycles + 1
              /\ cpu.instructions = ret.c.instructions + 1
              /\ ins.type # "ECALL"
                 => /\ cpu.pc = IF ins.type = "JAL" \/ holds
                                THEN Add(pc, ins.imm)
                                ELSE IF ins.type = "JALR"
                                THEN sum - (sum % 2)
                                ELSE Add(pc, 4)
                    /\ (ins.type \in {"JAL", "JALR"} /\ ins.rd # 0)
                       => regs[ins.rd] = Add(pc, 4)

\* a second step was a JALR with rd = x5 whose rs1 + imm was odd
C17_Witness ==
    /\ ret.op = "step"
    /\ cpu.cycles = 2
    /\ decode(ret.raw, ret.c.pc).type = "JALR"
    /\ ret.before[1] = 5
    /\ regs[5] = Add(ret.c.pc, 4)
    /\ cpu.pc = 8

\* The words decoded: every opcode the decoder knows and two it does not,
\* with the register fields, funct3 and funct7 all zeros, all ones and
\* mixed
DecodeWords ==
    {ToWord(f7 * 512 + rs2 * 16 + rs1 \div 2,
            (rs1 % 2) * 32768 + f3 * 4096 + rd * 128 + op) :
        op \in {OP_LUI, OP_AUIPC, OP_JAL, OP_JALR, OP_BRANCH, OP_LOAD,
                OP_STORE, OP_IMM, OP_REG, OP_SYSTEM, 0, 127},
        rd \in {0, 21, 31}, f3 \in {0, 7}, rs1 \in {0, 10, 31},
        rs2 \in {0, 5, 31}, f7 \in {0, 1, 32, 127}}

\* Decoder::decode(raw, pc); in_range tells whether RegisterFile::read and
\* write accept the three register numbers of the decoded instruction
DecodeWord ==
    /\ ret.op = "none"
    /\ \E raw \in DecodeWords :
       \E ins \in {decode(raw, TEXT_BASE)} :
           ret' = [op |-> "decode", raw |-> raw, ins |-> ins,
                   in_range |-> /\ RegisterFile_in_range(ins.rd)
                                /\ RegisterFile_in_range(ins.rs1)
                                /\ RegisterFile_in_range(ins.rs2)]
    /\ UNCHANGED <<prog, data, mode, mem, regs, cpu, pipe, hist>>
    /\ UNCHANGED asm_vars

\* C21: for every word the decoded rd, rs1 and rs2 lie in 0 .. 31, so that
\* no register-file access with them raises the out-of-range fault; this
\* holds for the words decoded directly and for those CPU::step fetched.
C21_DecodedRegistersInRange ==
    LET InRange(ins) == /\ ins.rd \in 0 .. 31
                        /\ ins.rs1 \in 0 .. 31
                        /\ ins.rs2 \in 0 .. 31
    IN  /\ ret.op = "decode" => (InRange(ret.ins) /\ ret.in_range)
        /\ ret.op = "step" => InRange(decode(ret.raw, ret.c.pc))
        /\ InRange(cpu.last_ins)

\* a word with all three register fields and the sign bit set was decoded
C21_Witness ==
    /\ ret.op = "decode" /\ ret.raw < 0
    /\ ret.ins.rd = 31 /\ ret.ins.rs1 = 31 /\ ret.ins.rs2 = 31

\* C37: a word whose opcode is none of the RV32IM opcodes, a branch, load or
\* store word with an undefined funct3, and an R-type word whose funct7 is
\* none of 0000000, 0100000, 0000001 (or is 0100000 with a funct3 other than
\* 000 and 101) decode to kind UNKNOWN and format UNKNOWN.
C37_UnrecognizedDecodesToUnknown ==
    LET opcode == bits(ret.raw, 6, 0)
        funct3 == get_funct3(ret.raw)
        funct7 == get_funct7(ret.raw)
        unrecognized ==
            \/ opcode \notin {OP_LUI, OP_AUIPC, OP_JAL, OP_JALR, OP_BRANCH,
                              OP_LOAD, OP_STORE, OP_IMM, OP_REG, OP_SYSTEM}
            \/ opcode = OP_BRANCH /\ funct3 \in {2, 3}
            \/ opcode = OP_LOAD /\ funct3 \in {3, 6, 7}
            \/ opcode = OP_STORE /\ funct3 \notin {0, 1, 2}
            \/ opcode = OP_REG /\ funct7 \notin {0, 32, 1}
            \/ opcode = OP_REG /\ funct7 = 32 /\ funct3 \notin {0, 5}
    IN  (ret.op = "decode" /\ unrecognized)
        => (ret.ins.type = "UNKNOWN" /\ ret.ins.format = "UNKNOWN")

\* the calls of the Memory interface that move a counter or the byte map
MemCalls == {"read_byte", "read_half", "read_word",
             "write_byte", "write_half", "write_word", "reset"}

MemCall(m, call, addr, value) ==
    CASE call = "read_byte" -> read_byte(m, addr).mem
      [] call = "read_half" -> read_half(m, addr).mem
      [] call = "read_word" -> read_word(m, addr).mem
      [] call = "write_byte" -> write_byte(m, addr, value % 256)
      [] call = "write_half" -> write_half(m, addr, value % H)
      [] call = "write_word" -> write_word(m, addr, value)
      [] OTHER -> Memory_reset

\* one call of the Memory interface on the memory as the writes left it
MemAccess ==
    /\ ret.op \in {"none", "write"}
    /\ \E call \in MemCalls, addr \in MemAddrs \cup {1, DATA_BASE} :
       \E value \in MemValues("word") :
       \E after \in {MemCall(mem, call, addr, value)} :
           /\ mem' = after
           /\ ret' = [op |-> "access", call |-> call, addr |-> addr,
                      value |-> value, before |-> mem]
    /\ UNCHANGED <<prog, data, mode, regs, cpu, pipe, hist, source,
                   assembler, asm_pc, asm_result, asmlog, program_loaded>>

\* the number of byte accesses of one call
AccessBytes(call) ==
    CASE call \in {"read_byte", "write_byte"} -> 1
      [] call \in {"read_half", "write_half"} -> 2
      [] call \in {"read_word", "write_word"} -> 4
      [] OTHER -> 0

\* C38: read_word and write_word add 4, read_half and write_half add 2 and
\* read_byte and write_byte add 1 to the read counter or the write counter
\* respectively; a read changes neither the write counter nor the byte map, a
\* write does not change the read counter and maps exactly the addressed
\* bytes; reset() empties the byte map and sets both counters to 0.
C38_CountersCountByteAccesses ==
    ret.op = "access" =>
        LET before == ret.before
            n == AccessBytes(ret.call)
            touched == {Add(ret.addr, i) : i \in 0 .. n - 1}
        IN  CASE ret.call \in {"read_byte", "read_half", "read_word"} ->
                   /\ mem.read_count = before.read_count + n
                   /\ mem.write_count = before.write_count
                   /\ mem.map = before.map
              [] ret.call \in {"write_byte", "write_half", "write_word"} ->
                   /\ mem.write_count = before.write_count + n
                   /\ mem.read_count = before.read_count
                   /\ DOMAIN mem.map = DOMAIN before.map \cup touched
                   /\ \A a \in DOMAIN before.map \ touched :
                          mem.map[a] = before.map[a]
              [] OTHER ->
                   /\ mem.map = EmptyMap
                   /\ DOMAIN mem.map = {}
                   /\ mem.read_count = 0
                   /\ mem.write_count = 0

\* a half-word read of an address never written, after overlapping word
\* writes at 0 and 0xFFFFFFFD: two reads counted, the seven mapped bytes and
\* the write counter as they were
C38_Witness ==
    /\ ret.op = "access"
    /\ ret.call = "read_half"
    /\ ret.addr = DATA_BASE
    /\ ret.before.write_count = 8
    /\ ret.before.read_count = 8
    /\ mem.read_count = 10
    /\ mem.write_count = 8
    /\ Cardinality(DOMAIN mem.map) = 7

NextCalls ==
    \/ EncodeDecode \/ LoadImmediate \/ LoadAddress
    \/ MemWrite \/ MemRead \/ Divide \/ StepOnce \/ DecodeWord
    \/ MemAccess

SpecCalls == InitCalls /\ [][NextCalls]_vars

\* ------------------------------------------------------------------------
\* Commands of the shell (emulator.cpp): load_source, step, reset and mode
\* given to a newly constructed Emulator
\* ------------------------------------------------------------------------
LoadLen == 2
MaxCmds == 4

LoadLines ==
    {l \in SourceLines :
        l.text \in {"addi x1, x0, 5", "foo x1", "addi x1, x0, zz"}}

\* one pass of Assembler::assemble over the lines from line i on; gs[i] is
\* what the uninitialised locals hold while line i is processed
RECURSIVE assemble_pass(_, _, _, _, _)
assemble_pass(a, src, i, first_pass, gs) ==
    IF i > Len(src) THEN a
    ELSE assemble_pass(process_line([a EXCEPT !.line_num = @ + 1], src[i],
                                    first_pass, gs[i]),
                       src, i + 1, first_pass, gs)

\* Assembler::assemble: both passes, then the result
assemble(src, gs1, gs2) ==
    Result(assemble_pass(pass_start(assemble_pass(Assembler_start, src, 1,
                                                  TRUE, gs1)),
                         src, 1, FALSE, gs2))

\* Assembler::Result as its default member initialisers leave it
Result_default == [Result(Assembler_start) EXCEPT !.success = FALSE]

\* CPU::reset and Pipeline::reset: the switches, the breakpoints and the
\* last instruction are not touched
cpu_reset(c) ==
    [c EXCEPT !.pc = TEXT_BASE, !.cycles = 0, !.instructions = 0,
              !.halted = FALSE]

pipeline_reset(p) ==
    [p EXCEPT !.pc = TEXT_BASE, !.next_pc = TEXT_BASE + 4,
              !.halted = FALSE, !.stalled = FALSE,
              !.cycles = 0, !.instructions = 0, !.stalls = 0,
              !.flushes = 0, !.forwards = 0,
              !.if_id = IF_ID_flush, !.id_ex = ID_EX_flush,
              !.ex_mem = EX_MEM_flush, !.mem_wb = MEM_WB_flush]

\* the members a command can change
Machine ==
    [mem |-> mem, regs |-> regs, cpu |-> cpu, pipe |-> pipe,
     asm_result |-> asm_result, program_loaded |-> program_loaded]

\* the reset and reload common to load_source and cmd_reset
reload(e, result) ==
    [e EXCEPT !.mem = Loaded(result.text, result.data).mem,
              !.regs = Loaded(result.text, result.data).regs,
              !.cpu = cpu_reset(e.cpu),
              !.pipe = pipeline_reset(e.pipe)]

\* Emulator::load_source given the result of assembler.assemble(source)
load_source(e, result) ==
    IF ~result.success THEN [e EXCEPT !.asm_result = result]
    ELSE [reload(e, result) EXCEPT !.asm_result = result,
                                   !.program_loaded = TRUE]

\* Emulator::cmd_reset
cmd_reset(e) ==
    IF ~e.program_loaded THEN e ELSE reload(e, e.asm_result)

\* Emulator::cmd_step(1)
cmd_step(e, m) ==
    IF ~e.program_loaded THEN e
    ELSE IF m = "single"
         THEN LET r == step([mem |-> e.mem, regs |-> e.regs, c |-> e.cpu])
              IN  [e EXCEPT !.mem = r.s.mem, !.regs = r.s.regs,
                            !.cpu = r.s.c]
         ELSE LET r == cycle([mem |-> e.mem, regs |-> e.regs, p |-> e.pipe])
              IN  [e EXCEPT !.mem = r.s.mem, !.regs = r.s.regs,
                            !.pipe = r.s.p]

\* ret records the command just run, the members before it and the result
\* of the last assembly that succeeded (never read by the commands)
InitLoad ==
    /\ prog = << >>
    /\ data = << >>
    /\ mode = "single"
    /\ mem = Memory_reset
    /\ regs = RegisterFile_reset
    /\ cpu = CPU_reset
    /\ pipe = Pipeline_reset
    /\ ret = [op |-> "none", n |-> 0, before |-> << >>,
              good |-> Result_default]
    /\ hist = Hist0
    /\ source = << >>
    /\ assembler = Assembler_start
    /\ asm_pc = "idle"
    /\ asm_result = Result_default
    /\ asmlog = AsmLog0
    /\ program_loaded = FALSE

Becomes(e) ==
    /\ mem' = e.mem
    /\ regs' = e.regs
    /\ cpu' = e.cpu
    /\ pipe' = e.pipe
    /\ asm_result' = e.asm_result
    /\ program_loaded' = e.program_loaded

\* every source given to load_source with what assemble() returns for it
LoadResults ==
    UNION {{[source |-> src, result |-> assemble(src, gs1, gs2)] :
                src \in [1 .. k -> LoadLines],
                gs1 \in [1 .. k -> Garbage], gs2 \in [1 .. k -> Garbage]} :
           k \in 1 .. LoadLen}

CmdLoad ==
    /\ ret.n < MaxCmds
    /\ \E l \in LoadResults :
           /\ Becomes(load_source(Machine, l.result))
           /\ source' = l.source
           /\ prog' = l.result.text
           /\ data' = l.result.data
           /\ ret' = [op |-> "load", n |-> ret.n + 1, before |-> Machine,
                      good |-> IF l.result.success THEN l.result
                               ELSE ret.good]
    /\ UNCHANGED <<mode, hist, assembler, asm_pc, asmlog>>

CmdStep ==
    /\ ret.n < MaxCmds
    /\ Becomes(cmd_step(Machine, mode))
    /\ ret' = [ret EXCEPT !.op = "step", !.n = @ + 1, !.before = Machine]
    /\ UNCHANGED <<prog, data, mode, hist, source, assembler, asm_pc, asmlog>>

CmdReset ==
    /\ ret.n < MaxCmds
    /\ Becomes(cmd_reset(Machine))
    /\ ret' = [ret EXCEPT !.op = "reset", !.n = @ + 1, !.before = Machine]
    /\ UNCHANGED <<prog, data, mode, hist, source, assembler, asm_pc, asmlog>>

CmdMode ==
    /\ ret.n < MaxCmds
    /\ mode' = IF mode = "single" THEN "pipeline" ELSE "single"
    /\ ret' = [ret EXCEPT !.op = "mode", !.n = @ + 1, !.before = Machine]
    /\ UNCHANGED <<prog, data, mem, regs, cpu, pipe, hist, source, assembler,
                   asm_pc, asm_result, asmlog, program_loaded>>

NextLoad == CmdLoad \/ CmdStep \/ CmdReset \/ CmdMode

SpecLoad == InitLoad /\ [][NextLoad]_vars

\* C39: a load whose assembly reports errors leaves memory, registers, both
\* executors and the stored result of the last successful assembly
\* unchanged, and a reset then reloads the program of the last successful
\* load, not the output of the failed assembly.
C39_FailedLoadKeepsProgram ==
    /\ (ret.op = "load" /\ ~asm_result.success) =>
           /\ mem = ret.before.mem
           /\ regs = ret.before.regs
           /\ cpu = ret.before.cpu
           /\ pipe = ret.before.pipe
           /\ program_loaded = ret.before.program_loaded
    /\ (ret.op = "reset" /\ program_loaded) =>
           /\ asm_result = ret.good
           /\ mem = Loaded(ret.good.text, ret.good.data).mem
           /\ regs = Loaded(ret.good.text, ret.good.data).regs
           /\ cpu = cpu_reset(ret.before.cpu)
           /\ pipe = pipeline_reset(ret.before.pipe)

=============================================================================
